---- MODULE Spec2Model ----
(***************************************************************************)
(* phpIPAM MCP server: the API client (src/src/client.ts), the             *)
(* configuration loader and the error type (config.ts and types.ts, kept   *)
(* in src/unnamed/part_000) and the tool dispatcher (index.ts, same file). *)
(*                                                                         *)
(* A JavaScript async function runs without interruption up to its next    *)
(* await on a pending promise.  Each action below is one such run of one   *)
(* call: the synchronous prefix of a client method, or the continuation    *)
(* that a completed HTTP exchange or an elapsed timer resumes.             *)
(***************************************************************************)
EXTENDS Integers, Sequences, FiniteSets, TLC

VARIABLES
    config,        \* PhpIpamConfig, fixed by loadConfig
    boot,          \* main(): "start", then "ready" or "configError"
    useCrypt,      \* PhpIpamClient.useCrypt
    authToken,     \* PhpIpamClient.authToken (Null when not set)
    tokenExpires,  \* PhpIpamClient.tokenExpires
    loginAt,       \* when the login that cached authToken completed
    cache,         \* SimpleCache.cache: key -> [data, expires]
    now,           \* Date.now()
    ticks,         \* how often the clock has advanced
    calls,         \* the state of each caller's client call
    log,           \* the lines written to the diagnostic stream
    backend        \* what the phpIPAM server holds, and the creates it received

vars == <<config, boot, useCrypt, authToken, tokenExpires, loginAt, cache, now, ticks, calls, log, backend>>

-----------------------------------------------------------------------------
(* Values *)

\* JavaScript undefined and null, for strings
NoValue == "undefined"
Null == "null"

\* An optional number is <<>> (undefined) or <<n>>
NoNumber == <<>>
Some(n) == <<n>>

\* JavaScript truthiness of an optional string
Truthy(s) == s # NoValue /\ s # Null /\ s # ""

-----------------------------------------------------------------------------
(* Bounds of the model *)

\* the callers that may have a client call in progress
NumCallers == 2

\* the create requests after which no further ensure is invoked
MaxCreates == 2
\* the largest PHPIPAM_MAX_RETRIES drawn
MaxRetriesBound == 3
\* the clock advances at most this often
MaxTicks == 2
Callers == 1..NumCallers

-----------------------------------------------------------------------------
(* types.ts *)

ErrorCodes == {"AUTH", "VALIDATION", "NOT_FOUND", "CONFLICT", "RETRYABLE", "FORBIDDEN", "INTERNAL"}

\* new PhpIpamError(message, code, statusCode?, retryable = false)
PhpIpamError(message, code, statusCode, retryable) ==
    [php |-> TRUE, code |-> code, message |-> message,
     statusCode |-> statusCode, retryable |-> retryable]

\* an exception that is no PhpIpamError (a TypeError raised by the runtime)
TypeError(message) ==
    [php |-> FALSE, code |-> "TypeError", message |-> message,
     statusCode |-> NoNumber, retryable |-> FALSE]

-----------------------------------------------------------------------------
(* config.ts *)

AuthModes == {"token", "password", "auto"}

HasToken(c) == Truthy(c.token)
HasPassword(c) == Truthy(c.username) /\ Truthy(c.password)

\* variant: any credential is accepted under any known mode
validateAuthConfig_AnyCredential(c) ==
    IF c.authMode \notin {"token", "password", "auto"}
    THEN PhpIpamError("Invalid PHPIPAM_AUTH_MODE", "VALIDATION", NoNumber, FALSE)
    ELSE IF ~Truthy(c.token) /\ ~(Truthy(c.username) /\ Truthy(c.password))
    THEN PhpIpamError("Authentication credentials required", "VALIDATION", NoNumber, FALSE)
    ELSE [php |-> TRUE, code |-> "ok"]

\* validateAuthConfig: "ok", or the VALIDATION error it throws
validateAuthConfig(c) ==
    CASE c.authMode = "token" ->
           IF ~HasToken(c)
           THEN PhpIpamError("PHPIPAM_TOKEN is required", "VALIDATION", NoNumber, FALSE)
           ELSE [php |-> TRUE, code |-> "ok"]
      [] c.authMode = "password" ->
           IF ~HasPassword(c)
           THEN PhpIpamError("PHPIPAM_USERNAME and PHPIPAM_PASSWORD are required", "VALIDATION", NoNumber, FALSE)
           ELSE [php |-> TRUE, code |-> "ok"]
      [] c.authMode = "auto" ->
           IF ~HasToken(c) /\ ~HasPassword(c)
           THEN PhpIpamError("Authentication credentials required", "VALIDATION", NoNumber, FALSE)
           ELSE [php |-> TRUE, code |-> "ok"]
      [] OTHER -> PhpIpamError("Invalid PHPIPAM_AUTH_MODE", "VALIDATION", NoNumber, FALSE)

Accepted(c) == validateAuthConfig(c).code = "ok"

\* variant: auto mode prefers the password when both are given
getEffectiveAuthMode_PreferPassword(c) ==
    IF c.authMode = "token" THEN "token"
    ELSE IF c.authMode = "password" THEN "password"
    ELSE IF HasPassword(c) THEN "password"
    ELSE "token"

\* variant: auto mode always resolves to the token
getEffectiveAuthMode_AutoToken(c) ==
    IF c.authMode = "token" THEN "token"
    ELSE IF c.authMode = "password" THEN "password"
    ELSE "token"

getEffectiveAuthMode(c) ==
    IF c.authMode = "token" THEN "token"
    ELSE IF c.authMode = "password" THEN "password"
    ELSE IF Truthy(c.token) THEN "token"
    ELSE "password"

-----------------------------------------------------------------------------
(* Data carried by responses and returned by client methods *)

\* a JSON value as the client looks at it: undefined, null, an array of
\* entities (each stood for by its id), an object with an id, or the login
\* data { token }
Data(t, items) == [t |-> t, items |-> items]
DataUndefined == Data("undefined", <<>>)
DataNull == Data("null", <<>>)
DataList(ids) == Data("list", ids)
DataObject(id) == Data("object", <<id>>)
DataAuth(token) == Data("auth", <<token>>)
\* SearchResult { addresses }
DataSearch(d) == Data("search:" \o d.t, d.items)

IsList(d) == d.t = "list"
\* data || []
OrEmptyList(d) == IF d.t \in {"undefined", "null"} THEN DataList(<<>>) ELSE d
\* result && result.length > 0 ? result[0] : null
\* (length is undefined on an object, and undefined > 0 is false)
FirstOrNull(d) == IF IsList(d) /\ Len(d.items) > 0 THEN DataObject(d.items[1]) ELSE DataNull
\* authData?.token
TokenOf(d) == IF d.t = "auth" THEN d.items[1] ELSE NoValue

-----------------------------------------------------------------------------
(* What the backend sends back over HTTP *)

\* the session tokens the backend may issue
SessionTokens == {"S1", "S2"}

\* where a login reply's body holds the session token (characters before it)
TokenOffsets == {38, 499}

\* the text of a body: its length, and the secret it holds and where
Text(len, secret, at) == [len |-> len, secret |-> secret, at |-> at]
PlainText(len) == Text(len, NoValue, 0)

\* the parsed body: not JSON at all, JSON null, or a JSON object whose
\* fields code, success, data, message may each be missing
Json(shape, code, success, data, message) ==
    [shape |-> shape, code |-> code, success |-> success, data |-> data, message |-> message]
JsonInvalid == Json("invalid", NoNumber, <<>>, DataUndefined, NoValue)
JsonNull == Json("null", NoNumber, <<>>, DataUndefined, NoValue)
JsonEmptyObject == Json("object", NoNumber, <<>>, DataUndefined, NoValue)
JsonResponse(code, success, data, message) == Json("object", Some(code), <<success>>, data, message)

\* one completed exchange: an HTTP response, or a transport failure
HttpReply(status, json, text) == [t |-> "http", status |-> status, json |-> json, text |-> text, why |-> NoValue]
TransportFailure(why) == [t |-> "transport", status |-> 0, json |-> JsonInvalid, text |-> PlainText(0), why |-> why]

\* the status codes of the failures the backend reports with a message, and
\* one it reports without
FailureCodes == {400, 401, 403, 404, 409, 500}
SilentFailureCodes == {503}

\* every way an API exchange may end
ApiReplies ==
    {HttpReply(200, JsonResponse(200, TRUE, d, NoValue), PlainText(120)) :
        d \in {DataUndefined, DataList(<<>>), DataList(<<"7">>), DataObject("7")}}
    \cup {HttpReply(c, JsonResponse(c, FALSE, DataUndefined, "backend message"), PlainText(120)) :
        c \in FailureCodes}
    \cup {HttpReply(c, JsonResponse(c, FALSE, DataUndefined, NoValue), PlainText(120)) :
        c \in SilentFailureCodes}
    \cup {HttpReply(200, JsonInvalid, PlainText(120)), HttpReply(502, JsonInvalid, PlainText(600))}
    \cup {HttpReply(200, JsonNull, PlainText(4)), HttpReply(200, JsonEmptyObject, PlainText(2))}
    \cup {TransportFailure("timeout"), TransportFailure("error")}

\* every way a login exchange may end
LoginReplies ==
    {HttpReply(200, JsonResponse(200, TRUE, DataAuth(s), NoValue), Text(120, s, at)) :
        s \in SessionTokens, at \in TokenOffsets}
    \cup {HttpReply(200, JsonResponse(200, TRUE, DataUndefined, NoValue), PlainText(120))}
    \cup {HttpReply(401, JsonResponse(401, FALSE, DataUndefined, "backend message"), PlainText(120)),
          HttpReply(500, JsonResponse(500, FALSE, DataUndefined, NoValue), PlainText(120))}
    \cup {HttpReply(502, JsonInvalid, PlainText(600))}
    \cup {HttpReply(200, JsonNull, PlainText(4)), HttpReply(200, JsonEmptyObject, PlainText(2))}
    \cup {TransportFailure("timeout"), TransportFailure("error")}

-----------------------------------------------------------------------------
(* Transport: PhpIpamClient.httpRequest *)

Min(a, b) == IF a < b THEN a ELSE b

\* data.substring(0, 500) in the debug line, data.substring(0, 200) in the
\* message of a body that does not parse
LogExcerptLen == 500
ParseExcerptLen == 200

\* the ApiResponse httpRequest resolves to (isNull: JSON null was parsed)
Response(isNull, code, success, data, message, excerpt) ==
    [isNull |-> isNull, code |-> code, success |-> success, data |-> data,
     message |-> message, excerpt |-> excerpt]

NoResponse == Response(FALSE, NoNumber, <<>>, DataUndefined, NoValue, 0)
NoError == [php |-> FALSE, code |-> "none", message |-> NoValue, statusCode |-> NoNumber, retryable |-> FALSE]

\* what the promise of httpRequest settles to for a completed exchange
httpRequest(reply) ==
    IF reply.t = "transport"
    THEN [ok |-> FALSE, response |-> NoResponse,
          error |-> PhpIpamError(IF reply.why = "timeout" THEN "Request timeout" ELSE "HTTP request failed",
                                 "RETRYABLE", NoNumber, TRUE)]
    ELSE IF reply.json.shape = "invalid"
    THEN [ok |-> TRUE, error |-> NoError,
          response |-> Response(FALSE, Some(reply.status), <<FALSE>>, DataUndefined,
                                "Failed to parse response", Min(reply.text.len, ParseExcerptLen))]
    ELSE [ok |-> TRUE, error |-> NoError,
          response |-> Response(reply.json.shape = "null", reply.json.code, reply.json.success,
                                reply.json.data, reply.json.message, 0)]

\* the secrets wholly inside the first n characters of a text
SecretsInPrefix(text, n) ==
    IF text.secret # NoValue /\ text.at + Len(text.secret) <= Min(text.len, n)
    THEN {text.secret} ELSE {}

\* a line of the diagnostic stream: which line, of which exchange, and the
\* secrets its text holds
LogLine(line, exchange, shows) == [line |-> line, exchange |-> exchange, shows |-> shows]

\* console.error(`[HTTP] ${options.method} ${options.url}`) and, when there
\* is a body, console.error(`[HTTP] Body: ${options.body}`): the URL is
\* baseUrl, appId and the path or the ciphertext; the headers are not printed
RequestLines(exchange, hasBody) ==
    IF ~config.debugHttp THEN {}
    ELSE {LogLine("request", exchange, {})}
         \cup (IF hasBody THEN {LogLine("body", exchange, {})} ELSE {})

\* console.error(`[HTTP] Response ${res.statusCode}: ${data.substring(0, 500)}`)
ResponseLines(exchange, reply) ==
    IF ~config.debugHttp \/ reply.t = "transport" THEN {}
    ELSE {LogLine("response", exchange, SecretsInPrefix(reply.text, LogExcerptLen))}

-----------------------------------------------------------------------------
(* Error classification: PhpIpamClient.mapApiError *)

MessageOr(message, default) == IF Truthy(message) THEN message ELSE default

CodeIs(code, n) == code = Some(n)
CodeAtLeast(code, n) == code # NoNumber /\ code[1] >= n

\* variant: the server-error test is a strict comparison
mapApiError_Above500(response) ==
    LET message == MessageOr(response.message, "Unknown error")
        code == response.code
    IN  IF CodeIs(code, 401) THEN PhpIpamError(message, "AUTH", code, FALSE)
        ELSE IF CodeIs(code, 403) THEN PhpIpamError(message, "FORBIDDEN", code, FALSE)
        ELSE IF CodeIs(code, 404) THEN PhpIpamError(message, "NOT_FOUND", code, FALSE)
        ELSE IF CodeIs(code, 409) THEN PhpIpamError(message, "CONFLICT", code, FALSE)
        ELSE IF CodeAtLeast(code, 501) THEN PhpIpamError(message, "RETRYABLE", code, TRUE)
        ELSE PhpIpamError(message, "VALIDATION", code, FALSE)

\* variant: the server-error branch leaves the flag at its default
mapApiError_FlagOmitted(response) ==
    LET message == MessageOr(response.message, "Unknown error")
        code == response.code
    IN  IF CodeIs(code, 401) THEN PhpIpamError(message, "AUTH", code, FALSE)
        ELSE IF CodeIs(code, 403) THEN PhpIpamError(message, "FORBIDDEN", code, FALSE)
        ELSE IF CodeIs(code, 404) THEN PhpIpamError(message, "NOT_FOUND", code, FALSE)
        ELSE IF CodeIs(code, 409) THEN PhpIpamError(message, "CONFLICT", code, FALSE)
        ELSE IF CodeAtLeast(code, 500) THEN PhpIpamError(message, "RETRYABLE", code, FALSE)
        ELSE PhpIpamError(message, "VALIDATION", code, FALSE)

mapApiError(response) ==
    LET message == MessageOr(response.message, "Unknown error")
        code == response.code
    IN  IF CodeIs(code, 401) THEN PhpIpamError(message, "AUTH", code, FALSE)
        ELSE IF CodeIs(code, 403) THEN PhpIpamError(message, "FORBIDDEN", code, FALSE)
        ELSE IF CodeIs(code, 404) THEN PhpIpamError(message, "NOT_FOUND", code, FALSE)
        ELSE IF CodeIs(code, 409) THEN PhpIpamError(message, "CONFLICT", code, FALSE)
        ELSE IF CodeAtLeast(code, 500) THEN PhpIpamError(message, "RETRYABLE", code, TRUE)
        ELSE PhpIpamError(message, "VALIDATION", code, FALSE)

\* variant: the 401 branch leaves the cached token in place
mapApiErrorAuthToken_Keep(response, token) == token

\* this.authToken after mapApiError(response)
mapApiErrorAuthToken(response, token) ==
    IF CodeIs(response.code, 401) THEN Null ELSE token

-----------------------------------------------------------------------------
(* Session manager: PhpIpamClient.getAuthToken *)

\* 5 * 60 * 60 * 1000: "Token typically expires in 6 hours, refresh after 5"
FiveHours == 5 * 60 * 60 * 1000

\* variant: the expiry test admits the instant of expiry
TokenValid_Inclusive(token, expires, t) == Truthy(token) /\ t <= expires

\* variant: the expiry alone decides, whether or not a token is cached
TokenValid_ExpiryOnly(token, expires, t) == t < expires

\* this.authToken && Date.now() < this.tokenExpires
TokenValid(token, expires, t) == Truthy(token) /\ t < expires

\* whether getAuthToken returns without a network exchange, and what
NeedsLogin == getEffectiveAuthMode(config) = "password" /\ ~TokenValid(authToken, tokenExpires, now)
\* variant: the session token is returned in either mode
ImmediateToken_Session == authToken

ImmediateToken == IF getEffectiveAuthMode(config) = "token" THEN config.token ELSE authToken

\* variant: a login reply is accepted whenever it reports success
LoginAccepted_SuccessOnly(response) == response.success = <<TRUE>>

\* !(!response.success || !authData?.token)
LoginAccepted(response) == response.success = <<TRUE>> /\ Truthy(TokenOf(response.data))

\* variant: the refresh margin is not applied (the full nominal lifetime)
LoginExpiry_SixHours(t) == t + 6 * 60 * 60 * 1000

\* Date.now() + (5 * 60 * 60 * 1000)
LoginExpiry(t) == t + FiveHours

-----------------------------------------------------------------------------
(* Retry policy of PhpIpamClient.request *)

RECURSIVE Pow2(_)
Pow2(n) == IF n <= 0 THEN 1 ELSE 2 * Pow2(n - 1)

\* variant: linear instead of exponential backoff
BackoffDelay_Linear(retryCount) == config.retryDelay * (retryCount + 1)

\* this.config.retryDelay * Math.pow(2, retryCount)
BackoffDelay(retryCount) == config.retryDelay * Pow2(retryCount)

\* variant: every PhpIpamError is retried, retryable or not
ShouldRetry_AnyError(error, retryCount) == error.php /\ retryCount < config.maxRetries

\* variant: one attempt too many
ShouldRetry_OffByOne(error, retryCount) ==
    error.php /\ error.retryable /\ retryCount <= config.maxRetries

\* error.retryable && retryCount < this.config.maxRetries
ShouldRetry(error, retryCount) ==
    error.php /\ error.retryable /\ retryCount < config.maxRetries

-----------------------------------------------------------------------------
(* Outcomes of a call: still pending, a returned value, or a thrown error *)

Outcome(kind, value, error) == [kind |-> kind, value |-> value, error |-> error]
Pending == Outcome("pending", DataUndefined, NoError)
Returned(value) == Outcome("value", value, NoError)
Thrown(error) == Outcome("error", DataUndefined, error)

IsNotFound(error) == error.php /\ error.code = "NOT_FOUND"

-----------------------------------------------------------------------------
(* Domain operations of PhpIpamClient *)

SectionIds == {"1", "2"}

Ops == {"listSections", "getSection", "listSubnets", "getSubnet", "getSubnetByCidr",
        "listAddresses", "getAddress", "getAddressByIp", "deleteAddress",
        "search", "searchByHostname"}

\* the methods that read and write the cache
CachedOps == {"listSections", "listSubnets"}
\* catch: NOT_FOUND becomes an empty collection
EmptyOnNotFound == {"listSubnets", "listAddresses", "search", "searchByHostname"}
\* catch: NOT_FOUND becomes null
NullOnNotFound == {"getSubnetByCidr", "getAddressByIp"}

\* the methods that write first and then read the entity back
WriteFirstOps == {"createSection", "createSubnet", "allocateFirstFree", "createAddress", "updateAddress"}

\* return this.getSection(result.id) and the like
FollowUp(op) ==
    CASE op = "createSection" -> "getSection"
      [] op = "createSubnet" -> "getSubnet"
      [] op \in {"allocateFirstFree", "createAddress", "updateAddress"} -> "getAddress"

OpMethod(op) ==
    CASE op = "deleteAddress" -> "DELETE"
      [] op = "updateAddress" -> "PATCH"
      [] op \in {"createSection", "createSubnet", "allocateFirstFree", "createAddress"} -> "POST"
      [] OTHER -> "GET"

\* the path of the request, as its non-empty segments
OpPath(op, arg) ==
    CASE op = "listSections" -> <<"sections">>
      [] op = "getSection" -> <<"sections", arg>>
      [] op = "listSubnets" -> <<"sections", arg, "subnets">>
      [] op = "getSubnet" -> <<"subnets", arg>>
      [] op = "getSubnetByCidr" -> <<"subnets", "cidr", arg>>
      [] op = "listAddresses" -> <<"subnets", arg, "addresses">>
      [] op = "getAddress" -> <<"addresses", arg>>
      [] op = "getAddressByIp" -> <<"addresses", "search", arg>>
      [] op = "deleteAddress" -> <<"addresses", arg>>
      [] op = "search" -> <<"addresses", "search", arg>>
      [] op = "searchByHostname" -> <<"addresses", "search_hostname", arg>>
      [] op = "createSection" -> <<"sections">>
      [] op = "createSubnet" -> <<"subnets">>
      [] op = "allocateFirstFree" -> <<"addresses", "first_free", arg>>
      [] op = "createAddress" -> <<"addresses">>
      [] op = "updateAddress" -> <<"addresses", arg>>

\* body: data as Record<string, unknown>, an object and so truthy
OpHasBody(op) == op \in WriteFirstOps

\* a request body: whether one is given, and its fields as name-value pairs
Body(given, fields) == [given |-> given, fields |-> fields]
NoBody == Body(FALSE, {})
OpBody(op) == IF OpHasBody(op) THEN Body(TRUE, {<<"description", "d">>}) ELSE NoBody

\* path.split('/').filter(p => p), for a path given as its split parts
Segments(parts) == SelectSeq(parts, LAMBDA part : part # "")

FieldNames(fields) == {f[1] : f \in fields}

\* Object.assign(target, source)
Assign(target, source) == {f \in target : f[1] \notin FieldNames(source)} \cup source

\* variant: the path-derived controller and id are kept over body fields
RequestParams_PathWins(parts, body) ==
    LET controller == IF Segments(parts) = <<>> THEN "" ELSE Segments(parts)[1]
        fromPath == {<<"controller", controller>>}
                    \cup (IF Len(Segments(parts)) > 1 THEN {<<"id", Segments(parts)[2]>>} ELSE {})
    IN  IF body.given THEN Assign(body.fields, fromPath) ELSE fromPath

\* requestParams of the encrypted transport
RequestParams(parts, body) ==
    LET controller == IF Segments(parts) = <<>> THEN "" ELSE Segments(parts)[1]
        fromPath == {<<"controller", controller>>}
                    \cup (IF Len(Segments(parts)) > 1 THEN {<<"id", Segments(parts)[2]>>} ELSE {})
    IN  IF body.given THEN Assign(fromPath, body.fields) ELSE fromPath

\* what the method returns when request() returned data
OpOnValue(op, data) ==
    CASE op \in {"listSections", "listSubnets", "listAddresses", "searchByHostname"} -> OrEmptyList(data)
      [] op = "search" -> DataSearch(OrEmptyList(data))
      [] op \in NullOnNotFound -> FirstOrNull(data)
      [] op = "deleteAddress" -> DataUndefined
      [] OTHER -> data

\* variant: the catch clauses rethrow NOT_FOUND like any other error
OpOnError_Rethrow(op, error) == Thrown(error)

\* variant: the by-id lookups normalise NOT_FOUND as the list methods do
OpOnError_AlwaysEmpty(op, error) ==
    IF IsNotFound(error) THEN Returned(DataList(<<>>)) ELSE Thrown(error)

\* variant: the catch clauses return the empty result for every error
OpOnError_SwallowAll(op, error) ==
    IF op \in EmptyOnNotFound
    THEN Returned(IF op = "search" THEN DataSearch(DataList(<<>>)) ELSE DataList(<<>>))
    ELSE IF op \in NullOnNotFound
    THEN Returned(DataNull)
    ELSE Thrown(error)

\* what the method does with an error thrown by request()
OpOnError(op, error) ==
    IF op \in EmptyOnNotFound /\ IsNotFound(error)
    THEN Returned(IF op = "search" THEN DataSearch(DataList(<<>>)) ELSE DataList(<<>>))
    ELSE IF op \in NullOnNotFound /\ IsNotFound(error)
    THEN Returned(DataNull)
    ELSE Thrown(error)

\* the outcome of the client method, from the outcome of its request()
MethodOutcome(op, req) ==
    IF req.kind = "value" THEN Returned(OpOnValue(op, req.value)) ELSE OpOnError(op, req.error)

-----------------------------------------------------------------------------
(* SimpleCache *)

CacheTtl == 60000

\* variant: the subnets of every section share one key
CacheKey_Shared(op, arg) == IF op = "listSections" THEN "sections" ELSE "subnets"

CacheKey(op, arg) == IF op = "listSections" THEN "sections" ELSE "subnets:" \o arg

\* variant: an entry never expires
CacheGet_NoExpiry(c, key, t) ==
    IF key \in DOMAIN c THEN c[key].data ELSE DataUndefined

\* get(key): an entry past its expiry is deleted and reported as undefined
CacheGet(c, key, t) ==
    IF key \in DOMAIN c /\ ~(t > c[key].expires) THEN c[key].data ELSE DataUndefined
CacheAfterGet(c, key, t) ==
    IF key \in DOMAIN c /\ t > c[key].expires
    THEN [k \in DOMAIN c \ {key} |-> c[k]]
    ELSE c

\* set(key, data)
CacheSet(c, key, data, t) ==
    [k \in DOMAIN c \cup {key} |-> IF k = key THEN [data |-> data, expires |-> t + CacheTtl] ELSE c[k]]

\* if (cached) return cached
IsTruthyData(d) == d.t \notin {"undefined", "null"}

-----------------------------------------------------------------------------
(* The dispatcher: handleTool *)

LookupTools == {"phpipam.subnets.get", "phpipam.addresses.get"}

\* the client method a lookup tool calls for its arguments: by id, by the
\* secondary key, or none when neither is given
ToolOp(tool, by) ==
    CASE by = "none" -> NoValue
      [] tool = "phpipam.subnets.get" -> IF by = "id" THEN "getSubnet" ELSE "getSubnetByCidr"
      [] tool = "phpipam.addresses.get" -> IF by = "id" THEN "getAddress" ELSE "getAddressByIp"

\* variant: the dispatcher hands a null lookup result to its caller
ToolOutcome_PassNull(tool, op, arg, result) == result

\* what handleTool makes of the client method's outcome
ToolOutcome(tool, op, arg, result) ==
    IF tool \in LookupTools /\ op \in NullOnNotFound /\ result.kind = "value" /\ result.value = DataNull
    THEN Thrown(PhpIpamError((IF tool = "phpipam.subnets.get" THEN "Subnet not found: " ELSE "Address not found: ") \o arg,
                             "NOT_FOUND", NoNumber, FALSE))
    ELSE result

ReadTools ==
    {"phpipam.health", "phpipam.sections.list", "phpipam.sections.get", "phpipam.subnets.list",
     "phpipam.subnets.get", "phpipam.addresses.list", "phpipam.addresses.get", "phpipam.search"}
WriteTools ==
    {"phpipam.addresses.allocate", "phpipam.addresses.release", "phpipam.addresses.upsert",
     "phpipam.subnets.ensure", "phpipam.sections.ensure"}
\* a name that is no case of the switch
UnknownTool == "phpipam.unknown"
Tools == ReadTools \cup WriteTools \cup {UnknownTool}

\* the arguments that matter to the switch: the id is given, only the
\* secondary key is given (name, cidr, ip; type 'hostname' for the search),
\* or neither
ToolBys(tool) ==
    IF tool \in {"phpipam.sections.get", "phpipam.subnets.get", "phpipam.addresses.get",
                 "phpipam.addresses.release"}
    THEN {"id", "key", "none"}
    ELSE IF tool = "phpipam.search" THEN {"id", "key"}
    ELSE {"id"}

\* a step of handleTool: it returns or throws (out), or calls a client method
StepOut(out) == [kind |-> "out", out |-> out, method |-> NoValue, arg |-> NoValue]
StepCall(method, arg) == [kind |-> "call", out |-> Pending, method |-> method, arg |-> arg]

Forbidden(message) == Thrown(PhpIpamError(message, "FORBIDDEN", NoNumber, FALSE))

\* the operation name the case passes to assertWriteEnabled
OperationName(tool) ==
    CHOOSE n \in {"addresses.allocate", "addresses.release", "addresses.upsert",
                  "subnets.ensure", "sections.ensure"} : "phpipam." \o n = tool

\* variant: the write toggle is not consulted
ToolGate_Open(cfg, tool) == Pending

\* assertWriteEnabled, assertSubnetCreateEnabled, assertSectionCreateEnabled
\* as the cases of handleTool call them: the error thrown, or Pending
ToolGate(cfg, tool) ==
    IF tool \in WriteTools /\ ~cfg.writeEnabled
    THEN Forbidden("Write operation '" \o OperationName(tool)
                   \o "' is disabled. Set PHPIPAM_WRITE_ENABLED=true to enable write operations.")
    ELSE IF tool = "phpipam.subnets.ensure" /\ ~cfg.allowSubnetCreate
    THEN Forbidden("Subnet creation is disabled. Set PHPIPAM_ALLOW_SUBNET_CREATE=true to enable.")
    ELSE IF tool = "phpipam.sections.ensure" /\ ~cfg.allowSectionCreate
    THEN Forbidden("Section creation is disabled. Set PHPIPAM_ALLOW_SECTION_CREATE=true to enable.")
    ELSE Pending

Invalid(message) == Thrown(PhpIpamError(message, "VALIDATION", NoNumber, FALSE))
NotFound(message) == Thrown(PhpIpamError(message, "NOT_FOUND", NoNumber, FALSE))

\* handleTool up to its first call of the client
ToolFirst(cfg, tool, by, arg) ==
    IF ToolGate(cfg, tool).kind = "error" THEN StepOut(ToolGate(cfg, tool))
    ELSE CASE tool = "phpipam.health" -> StepCall("health", arg)
           [] tool = "phpipam.sections.list" -> StepCall("listSections", arg)
           [] tool = "phpipam.sections.get" ->
                IF by = "id" THEN StepCall("getSection", arg)
                ELSE IF by = "key" THEN StepCall("getSectionByName", arg)
                ELSE StepOut(Invalid("Either id or name is required"))
           [] tool = "phpipam.subnets.list" -> StepCall("listSubnets", arg)
           [] tool = "phpipam.subnets.get" ->
                IF by = "none" THEN StepOut(Invalid("Either id or cidr is required"))
                ELSE StepCall(ToolOp(tool, by), arg)
           [] tool = "phpipam.addresses.list" -> StepCall("listAddresses", arg)
           [] tool = "phpipam.addresses.get" ->
                IF by = "none" THEN StepOut(Invalid("Either id or ip is required"))
                ELSE StepCall(ToolOp(tool, by), arg)
           [] tool = "phpipam.search" ->
                StepCall(IF by = "key" THEN "searchByHostname" ELSE "search", arg)
           [] tool = "phpipam.addresses.allocate" -> StepCall("allocateFirstFree", arg)
           [] tool = "phpipam.addresses.release" ->
                IF by = "id" THEN StepCall("deleteAddress", arg)
                ELSE IF by = "key" THEN StepCall("getAddressByIp", arg)
                ELSE StepOut(Invalid("Either id or ip is required"))
           [] tool = "phpipam.addresses.upsert" -> StepCall("getAddressByIp", arg)
           [] tool = "phpipam.subnets.ensure" -> StepCall("getSubnetByCidr", arg)
           [] tool = "phpipam.sections.ensure" -> StepCall("getSectionByName", arg)
           [] OTHER -> StepOut(Invalid("Unknown tool: " \o tool))

\* entity.id
IdOf(d) == IF d.t = "object" THEN d.items[1] ELSE NoValue

\* handleTool after a client method it awaited has returned or thrown
ToolStep(tool, method, arg, result) ==
    IF result.kind = "error" THEN StepOut(result)
    ELSE LET v == result.value
         IN  CASE tool \in LookupTools -> StepOut(ToolOutcome(tool, method, arg, result))
               [] tool = "phpipam.sections.get" /\ method = "getSectionByName" ->
                    IF v = DataNull THEN StepOut(NotFound("Section not found: " \o arg)) ELSE StepOut(result)
               [] tool = "phpipam.search" /\ method = "searchByHostname" ->
                    StepOut(Returned(DataSearch(v)))
               [] tool = "phpipam.addresses.release" /\ method = "getAddressByIp" ->
                    IF v = DataNull THEN StepOut(NotFound("Address not found: " \o arg))
                    ELSE IF ~Truthy(IdOf(v)) THEN StepOut(Invalid("Either id or ip is required"))
                    ELSE StepCall("deleteAddress", IdOf(v))
               [] tool = "phpipam.addresses.release" /\ method = "deleteAddress" ->
                    StepOut(Returned(Data("released", <<arg>>)))
               [] tool = "phpipam.addresses.upsert" /\ method = "getAddressByIp" ->
                    IF v = DataNull THEN StepCall("createAddress", arg) ELSE StepCall("updateAddress", IdOf(v))
               [] tool = "phpipam.subnets.ensure" /\ method = "getSubnetByCidr" ->
                    IF v = DataNull THEN StepCall("createSubnet", arg)
                    ELSE StepOut(Returned(Data("existing", v.items)))
               [] tool = "phpipam.subnets.ensure" /\ method = "createSubnet" ->
                    StepOut(Returned(Data("created", v.items)))
               [] tool = "phpipam.sections.ensure" /\ method = "getSectionByName" ->
                    IF v = DataNull THEN StepCall("createSection", arg)
                    ELSE StepOut(Returned(Data("existing", v.items)))
               [] tool = "phpipam.sections.ensure" /\ method = "createSection" ->
                    StepOut(Returned(Data("created", v.items)))
               [] OTHER -> StepOut(result)

\* what the CallTool handler answers: the result as text, or an error
\* response with the code and the retryable flag of a PhpIpamError, or
\* INTERNAL with no flag for any other exception
ToolResponse(isError, error, retryable) == [isError |-> isError, error |-> error, retryable |-> retryable]
NoToolResponse == ToolResponse(FALSE, "pending", <<>>)

\* variant: only a PhpIpamError is caught
CallToolResponse_PhpOnly(out) ==
    IF out.kind = "value" THEN ToolResponse(FALSE, "none", <<>>)
    ELSE IF out.error.php THEN ToolResponse(TRUE, out.error.code, <<out.error.retryable>>)
    ELSE NoToolResponse

CallToolResponse(out) ==
    IF out.kind = "value" THEN ToolResponse(FALSE, "none", <<>>)
    ELSE IF out.error.php THEN ToolResponse(TRUE, out.error.code, <<out.error.retryable>>)
    ELSE ToolResponse(TRUE, "INTERNAL", <<>>)

-----------------------------------------------------------------------------
(* Methods of the client built on other methods *)

\* the public methods of the client, and the method each starts with
PublicMethods == Ops \cup WriteFirstOps \cup {"getSectionByName", "health"}
FirstOp(method) == IF method \in {"getSectionByName", "health"} THEN "listSections" ELSE method

\* what the method makes of the outcome of the method it awaited:
\* getSectionByName searches the list (an entity stands for itself by its
\* id and name), health reports every outcome as a value
MethodWrap(method, arg, opResult) ==
    CASE method = "getSectionByName" ->
           IF opResult.kind = "error" THEN opResult
           ELSE IF ~IsList(opResult.value) THEN Thrown(TypeError("sections.find is not a function"))
           ELSE IF \E i \in 1..Len(opResult.value.items) : opResult.value.items[i] = arg
           THEN Returned(DataObject(arg))
           ELSE Returned(DataNull)
      [] method = "health" ->
           Returned(Data("health", <<IF opResult.kind = "error" THEN "false" ELSE "true">>))
      [] OTHER -> opResult

-----------------------------------------------------------------------------
(* The state of one caller's call *)

\* the exchange last put on the wire by the call
Sent(exchange, method, crypt, tokenHeader, basicAuth, hasBody) ==
    [exchange |-> exchange, method |-> method, crypt |-> crypt,
     tokenHeader |-> tokenHeader, basicAuth |-> basicAuth, hasBody |-> hasBody]
NothingSent == Sent("none", NoValue, FALSE, NoValue, FALSE, FALSE)

NoReply == TransportFailure(NoValue)

IdleCall ==
    [pc |-> "idle",            \* idle, token, loginWait, apiWait, sleep, done
     tool |-> NoValue,         \* the dispatcher's tool, when called through it
     method |-> NoValue,       \* the public client method called
     op |-> NoValue,           \* the client method whose request() is running
     arg |-> NoValue,
     path |-> <<>>,            \* options.path, split at '/'
     body |-> NoBody,          \* options.body
     params |-> {},            \* requestParams of the last encrypted request
     retryCount |-> 0,         \* options.retryCount of the running request()
     token |-> NoValue,        \* const token = await this.getAuthToken()
     attempts |-> 0,           \* API exchanges issued by this call
     logins |-> 0,             \* login exchanges issued by this call
     waits |-> <<>>,           \* the delays slept so far
     onlyRetryable |-> TRUE,   \* every reply so far was a retryable failure
     reply |-> NoReply,        \* the last reply to an API exchange of this call
     sent |-> NothingSent,
     req |-> Pending,          \* outcome of request()
     result |-> Pending,       \* outcome of the client method
     out |-> Pending,          \* outcome of handleTool
     response |-> NoToolResponse]  \* what the CallTool handler answers

\* request() from its entry to the first pending await: getAuthToken either
\* returns a credential at once or issues the login exchange
EnterRequest(c) ==
    IF NeedsLogin
    THEN [c EXCEPT !.pc = "loginWait", !.logins = @ + 1, !.token = NoValue,
                   !.sent = Sent("login", "POST", FALSE, NoValue, TRUE, FALSE)]
    ELSE [c EXCEPT !.pc = "token", !.token = ImmediateToken]

EnterRequestLines == IF NeedsLogin THEN RequestLines("login", FALSE) ELSE {}

\* a further call of request() in the course of the same call
NewRequest(c, op, arg) ==
    EnterRequest([c EXCEPT !.op = op, !.arg = arg, !.path = OpPath(op, arg), !.body = OpBody(op),
                           !.retryCount = 0, !.attempts = 0, !.logins = 0,
                           !.waits = <<>>, !.onlyRetryable = TRUE, !.reply = NoReply, !.req = Pending])

\* the client method running has returned or thrown: the public method
\* returns or throws in turn, and handleTool, when it made the call, goes on
Conclude(c, opResult) ==
    LET result == MethodWrap(c.method, c.arg, opResult)
        c1 == [c EXCEPT !.result = result]
        step == ToolStep(c.tool, c.method, c.arg, result)
    IN  IF c.tool = NoValue THEN [c1 EXCEPT !.pc = "done"]
        ELSE IF step.kind = "out"
        THEN [c1 EXCEPT !.pc = "done", !.out = step.out, !.response = CallToolResponse(step.out)]
        ELSE NewRequest([c1 EXCEPT !.method = step.method], step.method, step.arg)

\* request() has returned or thrown: a method that writes first reads the
\* entity back by result.id (a TypeError when there is no result), any
\* other method returns or throws
Finish(c, req) ==
    LET c1 == [c EXCEPT !.req = req]
    IN  IF req.kind = "value" /\ c.op \in WriteFirstOps
        THEN IF c.op # "updateAddress" /\ req.value.t \in {"undefined", "null"}
             THEN Conclude(c1, Thrown(TypeError("Cannot read properties of undefined (reading 'id')")))
             ELSE NewRequest(c1, FollowUp(c.op), IF c.op = "updateAddress" THEN c.arg ELSE IdOf(req.value))
        ELSE Conclude(c1, MethodOutcome(c.op, req))

\* handleTool returned or threw without calling the client
Answered(tool, out) ==
    [IdleCall EXCEPT !.pc = "done", !.tool = tool, !.out = out, !.response = CallToolResponse(out)]

\* the request line of a login that the call issued in this step
LinesOnEnter(before, after) ==
    IF after.pc = "loginWait" /\ (before.pc # "loginWait" \/ after.logins > before.logins)
    THEN RequestLines("login", FALSE) ELSE {}

\* a failure that the retry policy treats as transient: no response at all,
\* or success=false with code >= 500
RetryableReply(reply) ==
    \/ reply.t = "transport"
    \/ /\ reply.t = "http"
       /\ reply.json.shape = "object"
       /\ reply.json.success = <<FALSE>>
       /\ CodeAtLeast(reply.json.code, 500)

-----------------------------------------------------------------------------
(* Configurations *)

MakeConfig(authMode, token, username, password, debugHttp, enableCache, maxRetries, retryDelay) ==
    [authMode |-> authMode, token |-> token, username |-> username, password |-> password,
     debugHttp |-> debugHttp, enableCache |-> enableCache,
     maxRetries |-> maxRetries, retryDelay |-> retryDelay,
     writeEnabled |-> FALSE, allowSubnetCreate |-> FALSE, allowSectionCreate |-> FALSE]

\* PHPIPAM_WRITE_ENABLED, PHPIPAM_ALLOW_SUBNET_CREATE, PHPIPAM_ALLOW_SECTION_CREATE
\* (all false unless set)
WithToggles(c, writeEnabled, allowSubnetCreate, allowSectionCreate) ==
    [c EXCEPT !.writeEnabled = writeEnabled, !.allowSubnetCreate = allowSubnetCreate,
              !.allowSectionCreate = allowSectionCreate]

\* every environment loadConfig may read (an unset variable is undefined)
RawConfigs ==
    {MakeConfig(m, t, u, pw, FALSE, FALSE, 3, 1000) :
        m \in AuthModes \cup {"basic"}, t \in {NoValue, "", "t1"},
        u \in {NoValue, "", "admin"}, pw \in {NoValue, "", "pw"}}

\* the two configurations the toggles are varied on: a static token alone,
\* and a username and password alone
TokenOnly(debugHttp, enableCache, maxRetries, retryDelay) ==
    MakeConfig("auto", "t1", NoValue, NoValue, debugHttp, enableCache, maxRetries, retryDelay)
PasswordOnly(debugHttp, enableCache, maxRetries, retryDelay) ==
    MakeConfig("auto", NoValue, "admin", "pw", debugHttp, enableCache, maxRetries, retryDelay)

\* the configurations a client is constructed with: every accepted choice of
\* mode and credentials that resolves to the token, the password mode with
\* and without a static token beside it, every retry bound with the token,
\* and the smallest and the largest with the password
ClientConfigs ==
    {c \in {MakeConfig(m, "t1", up[1], up[2], FALSE, FALSE, 1, 1000) :
                m \in AuthModes, up \in {<<NoValue, NoValue>>, <<"admin", "pw">>}} :
        Accepted(c) /\ getEffectiveAuthMode(c) = "token"}
    \cup {MakeConfig("password", "t1", "admin", "pw", FALSE, FALSE, 0, 1000)}
    \cup {TokenOnly(FALSE, FALSE, r, rd) : r \in 0..MaxRetriesBound, rd \in {250, 1000}}
    \cup {PasswordOnly(FALSE, FALSE, r, 1000) : r \in {0, MaxRetriesBound}}

\* the configurations the tools are called under: the token and the
\* password mode, without and with one retry, the write toggles all off,
\* the write toggle alone, the creation toggles alone, and all on
ToolConfigs ==
    {WithToggles(c, t[1], t[2], t[3]) :
        c \in {TokenOnly(FALSE, FALSE, r, 1000) : r \in {0, 1}}
              \cup {PasswordOnly(FALSE, FALSE, r, 1000) : r \in {0, 1}},
        t \in {<<FALSE, FALSE, FALSE>>, <<TRUE, FALSE, FALSE>>,
               <<FALSE, TRUE, TRUE>>, <<TRUE, TRUE, TRUE>>}}

\* the server before anything was created
EmptyBackend == [sections |-> {}, subnets |-> {}, creates |-> <<>>]

-----------------------------------------------------------------------------
(* Actions *)

\* main(): loadConfig() validates the environment; on success the client is
\* constructed, otherwise the process exits
Main ==
    /\ boot = "start"
    /\ IF Accepted(config)
       THEN /\ boot' = "ready"
            /\ useCrypt' = (getEffectiveAuthMode(config) = "token")
       ELSE /\ boot' = "configError"
            /\ useCrypt' = useCrypt
    /\ UNCHANGED <<config, backend, authToken, tokenExpires, loginAt, cache, now, ticks, calls, log>>

\* the advances of the clock the client can tell apart: it reads the clock
\* only to test the session expiry (password mode) and the cache expiry
TickSteps ==
    (IF getEffectiveAuthMode(config) = "password" THEN {1, FiveHours - 1} ELSE {})
    \cup (IF config.enableCache THEN {1, CacheTtl} ELSE {})

\* where a call may be when the clock is advanced: at a wait that ends in a
\* reading of the clock (the login stamps the expiry on completion, a cached
\* method stamps its entry on completion; a sleep ends in getAuthToken)
TickPoints ==
    {"idle", "loginWait", "sleep"} \cup (IF config.enableCache THEN {"apiWait"} ELSE {})

\* time passes, while every call in progress waits for the network or a timer
Tick ==
    /\ boot = "ready"
    /\ ticks < MaxTicks
    /\ \A q \in Callers : calls[q].pc \in TickPoints
    /\ \E d \in TickSteps : now' = now + d
    /\ ticks' = ticks + 1
    /\ UNCHANGED <<config, backend, boot, useCrypt, authToken, tokenExpires, loginAt, cache, calls, log>>

\* a client method is called (directly, or by handleTool for a lookup tool),
\* and runs to its first pending await
Start(p, tool, method, arg) ==
    LET op == FirstOp(method)
        c == [IdleCall EXCEPT !.tool = tool, !.method = method, !.op = op, !.arg = arg,
                              !.path = OpPath(op, arg), !.body = OpBody(op)]
        cached == config.enableCache /\ op \in CachedOps
        key == CacheKey(op, arg)
        hit == IF cached THEN CacheGet(cache, key, now) ELSE DataUndefined
        next == IF cached /\ IsTruthyData(hit) THEN Conclude(c, Returned(hit)) ELSE EnterRequest(c)
    IN  /\ cache' = IF cached THEN CacheAfterGet(cache, key, now) ELSE cache
        /\ calls' = [calls EXCEPT ![p] = next]
        /\ log' = log \cup LinesOnEnter(c, next)
        /\ UNCHANGED <<config, backend, boot, useCrypt, authToken, tokenExpires, loginAt, now, ticks>>

\* the caller that takes the next call: the first one that is free
FreeCaller(p) == calls[p].pc = "idle" /\ \A q \in Callers : q < p => calls[q].pc # "idle"

\* no call is in progress
Quiet == \A q \in Callers : calls[q].pc = "idle"

\* a public method of the client is called
Invoke(p) ==
    /\ boot = "ready"
    /\ Quiet /\ FreeCaller(p)
    /\ \E op \in Ops :
         \E arg \in (IF op = "listSubnets" THEN SectionIds ELSE {"7"}) :
            Start(p, NoValue, op, arg)

\* handleTool for phpipam.subnets.get and phpipam.addresses.get
InvokeTool(p) ==
    /\ boot = "ready"
    /\ Quiet /\ FreeCaller(p)
    /\ \E tool \in LookupTools, by \in {"id", "key", "none"} :
         IF by = "none"
         THEN /\ calls' = [calls EXCEPT ![p] = Answered(tool, ToolFirst(config, tool, by, "7").out)]
              /\ UNCHANGED <<config, backend, boot, useCrypt, authToken, tokenExpires, loginAt, cache, now, ticks, log>>
         ELSE Start(p, tool, ToolOp(tool, by), "7")

\* any public method of the client is called
InvokeMethod(p) ==
    /\ boot = "ready"
    /\ Quiet /\ FreeCaller(p)
    /\ \E method \in PublicMethods : Start(p, NoValue, method, "7")

\* the CallTool handler runs handleTool for a request
CallTool(p, tool, by, arg) ==
    LET first == ToolFirst(config, tool, by, arg)
    IN  IF first.kind = "out"
        THEN /\ calls' = [calls EXCEPT ![p] = Answered(tool, first.out)]
             /\ UNCHANGED <<config, backend, boot, useCrypt, authToken, tokenExpires, loginAt, cache, now, ticks, log>>
        ELSE Start(p, tool, first.method, first.arg)

InvokeAnyTool(p) ==
    /\ boot = "ready"
    /\ Quiet /\ FreeCaller(p)
    /\ \E tool \in Tools : \E by \in ToolBys(tool) : CallTool(p, tool, by, "7")

\* the login exchange completes: getAuthToken caches the token or throws, and
\* what it throws leaves request() at once (the await is outside the try)
LoginResponse(p) ==
    /\ calls[p].pc = "loginWait"
    /\ \E reply \in LoginReplies :
        LET c == calls[p]
            r == httpRequest(reply)
        IN  /\ log' = log \cup ResponseLines("login", reply)
            /\ IF ~r.ok
               THEN /\ calls' = [calls EXCEPT ![p] = Finish(c, Thrown(r.error))]
                    /\ UNCHANGED <<authToken, tokenExpires, loginAt>>
               ELSE IF r.response.isNull
               THEN /\ calls' = [calls EXCEPT ![p] = Finish(c, Thrown(TypeError("Cannot read properties of null")))]
                    /\ UNCHANGED <<authToken, tokenExpires, loginAt>>
               ELSE IF ~LoginAccepted(r.response)
               THEN /\ calls' = [calls EXCEPT ![p] = Finish(c,
                            Thrown(PhpIpamError("Authentication failed: " \o MessageOr(r.response.message, "Unknown error"),
                                                "AUTH", r.response.code, FALSE)))]
                    /\ UNCHANGED <<authToken, tokenExpires, loginAt>>
               ELSE /\ authToken' = TokenOf(r.response.data)
                    /\ tokenExpires' = LoginExpiry(now)
                    /\ loginAt' = now
                    /\ calls' = [calls EXCEPT ![p] = [c EXCEPT !.pc = "token", !.token = TokenOf(r.response.data)]]
    /\ UNCHANGED <<config, backend, boot, useCrypt, cache, now, ticks>>

\* variant: the encrypted transport sends the logical method
HttpMethod_Logical(crypt, method) == method

\* method: this.useCrypt ? 'GET' : method
HttpMethod(crypt, method) == IF crypt THEN "GET" ELSE method

\* request() resumes with the credential and issues the API exchange
SendApi(p) ==
    /\ calls[p].pc = "token"
    /\ LET c == calls[p]
           body == ~useCrypt /\ c.body.given
       IN  /\ calls' = [calls EXCEPT ![p] =
                [c EXCEPT !.pc = "apiWait", !.attempts = @ + 1,
                          !.params = IF useCrypt THEN RequestParams(c.path, c.body) ELSE {},
                          !.sent = Sent("api", HttpMethod(useCrypt, OpMethod(c.op)), useCrypt,
                                        IF useCrypt THEN NoValue ELSE c.token, FALSE, body)]]
           /\ log' = log \cup RequestLines("api", body)
    /\ UNCHANGED <<config, backend, boot, useCrypt, authToken, tokenExpires, loginAt, cache, now, ticks>>

\* the outcome of one attempt of request(): the data, or the error thrown
AttemptOutcome(r) ==
    IF ~r.ok THEN Thrown(r.error)
    ELSE IF r.response.isNull
    THEN Thrown(PhpIpamError("Unexpected error: TypeError", "INTERNAL", NoNumber, FALSE))
    ELSE IF r.response.success = <<TRUE>> THEN Returned(r.response.data)
    ELSE Thrown(mapApiError(r.response))

\* the API exchange completes: request() returns the data, sleeps before a
\* retry, or throws; the client method then caches and normalises
ApiResponseWith(p, reply) ==
    /\ calls[p].pc = "apiWait"
    /\  LET c == [calls[p] EXCEPT !.onlyRetryable = @ /\ RetryableReply(reply), !.reply = reply]
            r == httpRequest(reply)
            mapped == r.ok /\ ~r.response.isNull /\ r.response.success # <<TRUE>>
            req == AttemptOutcome(r)
            retry == req.kind = "error" /\ ShouldRetry(req.error, c.retryCount)
            next == IF retry
                    THEN [c EXCEPT !.pc = "sleep", !.waits = Append(@, BackoffDelay(c.retryCount))]
                    ELSE Finish(c, req)
        IN  /\ log' = log \cup ResponseLines("api", reply) \cup LinesOnEnter(c, next)
            /\ authToken' = IF mapped THEN mapApiErrorAuthToken(r.response, authToken) ELSE authToken
            /\ calls' = [calls EXCEPT ![p] = next]
            /\ cache' = IF ~retry /\ req.kind = "value" /\ config.enableCache /\ c.op \in CachedOps
                        THEN CacheSet(cache, CacheKey(c.op, c.arg), req.value, now)
                        ELSE cache
    /\ UNCHANGED <<config, boot, useCrypt, tokenExpires, loginAt, now, ticks>>

\* the same, for a backend that the model does not follow: any reply of a set
ApiResponseFrom(p, replies) ==
    /\ \E reply \in replies : ApiResponseWith(p, reply)
    /\ backend' = backend

ApiResponse(p) == ApiResponseFrom(p, ApiReplies)

\* variant: the retry goes on with the token of the attempt before
RetryEntry_KeepToken(c) == [c EXCEPT !.retryCount = @ + 1, !.pc = "token"]

\* variant: the retry passes its options on as they are
RetryEntry_SameCount(c) == EnterRequest(c)

\* return this.request({ ...options, retryCount: retryCount + 1 })
RetryEntry(c) == EnterRequest([c EXCEPT !.retryCount = @ + 1])

\* the backoff timer fires: request() calls itself with retryCount + 1
Wake(p) ==
    /\ calls[p].pc = "sleep"
    /\ calls' = [calls EXCEPT ![p] = RetryEntry(calls[p])]
    /\ log' = log \cup EnterRequestLines
    /\ UNCHANGED <<config, backend, boot, useCrypt, authToken, tokenExpires, loginAt, cache, now, ticks>>

\* the caller takes the outcome
Return(p) ==
    /\ calls[p].pc = "done"
    /\ calls' = [calls EXCEPT ![p] = IdleCall]
    /\ UNCHANGED <<config, backend, boot, useCrypt, authToken, tokenExpires, loginAt, cache, now, ticks, log>>

-----------------------------------------------------------------------------
(* Specifications *)

\* the client right after construction, for every configuration it accepts
Constructed(configs) ==
    /\ config \in configs
    /\ boot = "ready"
    /\ useCrypt = (getEffectiveAuthMode(config) = "token")
    /\ authToken = Null
    /\ tokenExpires = 0
    /\ loginAt = 0
    /\ cache = <<>>
    /\ now = 0
    /\ ticks = 0
    /\ calls = [p \in Callers |-> IdleCall]
    /\ log = {}
    /\ backend = EmptyBackend

Init == Constructed(ClientConfigs)

Next ==
    \/ Tick
    \/ \E p \in Callers : Invoke(p)
    \/ \E p \in Callers : InvokeTool(p)
    \/ \E p \in Callers : LoginResponse(p)
    \/ \E p \in Callers : SendApi(p)
    \/ \E p \in Callers : ApiResponse(p)
    \/ \E p \in Callers : Wake(p)
    \/ \E p \in Callers : Return(p)

\* calls made one at a time
Spec == Init /\ [][Next]_vars

\* every public method and every tool, called one at a time
NextTools ==
    \/ \E p \in Callers : InvokeMethod(p)
    \/ \E p \in Callers : InvokeAnyTool(p)
    \/ \E p \in Callers : LoginResponse(p)
    \/ \E p \in Callers : SendApi(p)
    \/ \E p \in Callers : ApiResponse(p)
    \/ \E p \in Callers : Wake(p)
    \/ \E p \in Callers : Return(p)

SpecTools == Constructed(ToolConfigs) /\ [][NextTools]_vars

\* the cache: the two cached methods, one that is not cached and health,
\* which calls listSections, called one
\* at a time while the clock advances, with caching on and off
CacheConfigs == {TokenOnly(FALSE, e, r, 1000) : e \in BOOLEAN, r \in {0, 1}}

CacheReplies ==
    {r \in ApiReplies :
        \/ r.t = "transport"
        \/ r.json.shape = "object" /\ r.json.success = <<TRUE>>
        \/ r.json.shape = "object" /\ r.json.success = <<FALSE>> /\ r.json.code \in {<<404>>, <<500>>}}

InvokeCached(p) ==
    /\ boot = "ready"
    /\ Quiet /\ FreeCaller(p)
    /\ \E method \in {"listSections", "listSubnets", "getSection", "health"} : Start(p, NoValue, method, "1")

CachedResponse(p) == ApiResponseFrom(p, CacheReplies)

NextCache ==
    \/ Tick
    \/ \E p \in Callers : InvokeCached(p)
    \/ \E p \in Callers : SendApi(p)
    \/ \E p \in Callers : CachedResponse(p)
    \/ \E p \in Callers : Wake(p)
    \/ \E p \in Callers : Return(p)

SpecCache == Constructed(CacheConfigs) /\ [][NextCache]_vars

\* ---- every client method, with the cache off and on ----

FrameConfigs ==
    {TokenOnly(FALSE, e, 0, 1000) : e \in BOOLEAN} \cup {PasswordOnly(FALSE, FALSE, 0, 1000)}

FrameReplies ==
    {r \in ApiReplies :
        \/ r.json.shape = "object" /\ r.json.success = <<TRUE>>
             /\ r.json.data \in {DataList(<<"7">>), DataObject("7")}
        \/ r.json.shape = "object" /\ r.json.success = <<FALSE>> /\ r.json.message # NoValue
             /\ r.json.code = <<404>>}

InvokeFrame(p) ==
    /\ boot = "ready"
    /\ Quiet /\ FreeCaller(p)
    /\ \E method \in PublicMethods :
         \E arg \in (IF method = "listSubnets" THEN SectionIds ELSE {"7"}) :
            Start(p, NoValue, method, arg)

FrameResponse(p) == ApiResponseFrom(p, FrameReplies)

NextFrame ==
    \/ Tick
    \/ \E p \in Callers : InvokeFrame(p)
    \/ \E p \in Callers : LoginResponse(p)
    \/ \E p \in Callers : SendApi(p)
    \/ \E p \in Callers : FrameResponse(p)
    \/ \E p \in Callers : Return(p)

SpecFrame == Constructed(FrameConfigs) /\ [][NextFrame]_vars

\* calls interleaved at their awaits: each caller calls getSection whenever
\* it is free, in password mode, while the clock advances at any await
ConcConfigs == {PasswordOnly(FALSE, FALSE, 1, 1000)}

ConcReplies ==
    {r \in ApiReplies :
        \/ r.t = "transport" /\ r.why = "timeout"
        \/ r.json.shape = "object" /\ r.json.success = <<TRUE>> /\ r.json.data = DataObject("7")
        \/ r.json.shape = "object" /\ r.json.success = <<FALSE>> /\ r.json.message # NoValue
             /\ r.json.code = <<401>>}

\* the callers whose calls interleave
ConcurrentCallers == {1, 2}

InvokeConcurrent(p) ==
    /\ boot = "ready"
    /\ p \in ConcurrentCallers
    /\ calls[p].pc = "idle"
    /\ Start(p, NoValue, "getSection", "7")

TickAtAwait ==
    /\ boot = "ready"
    /\ ticks < MaxTicks
    /\ \A q \in Callers : calls[q].pc \in {"idle", "loginWait", "apiWait", "sleep"}
    /\ \E d \in TickSteps : now' = now + d
    /\ ticks' = ticks + 1
    /\ UNCHANGED <<config, backend, boot, useCrypt, authToken, tokenExpires, loginAt, cache, calls, log>>

ConcResponse(p) == ApiResponseFrom(p, ConcReplies)

NextConc ==
    \/ TickAtAwait
    \/ \E p \in Callers : InvokeConcurrent(p)
    \/ \E p \in Callers : LoginResponse(p)
    \/ \E p \in Callers : SendApi(p)
    \/ \E p \in Callers : ConcResponse(p)
    \/ \E p \in Callers : Wake(p)
    \/ \E p \in Callers : Return(p)

SpecConc == Constructed(ConcConfigs) /\ [][NextConc]_vars

\* ensure against a server that stores what is created: it lists and finds
\* what it holds, creates what it does not hold, and refuses a duplicate
\* with 409; an entity stands for itself by its id, name or cidr
Answer(code, success, data) ==
    HttpReply(code, JsonResponse(code, success, data, IF success THEN NoValue ELSE "backend message"), PlainText(120))

Held(items, key) == IF key \in items THEN DataList(<<key>>) ELSE DataList(<<>>)

BackendReply(b, op, arg) ==
    CASE op = "listSections" -> Answer(200, TRUE, Held(b.sections, "7"))
      [] op = "getSubnetByCidr" -> Answer(200, TRUE, Held(b.subnets, arg))
      [] op = "createSection" ->
           IF arg \in b.sections THEN Answer(409, FALSE, DataUndefined) ELSE Answer(201, TRUE, DataObject(arg))
      [] op = "createSubnet" ->
           IF arg \in b.subnets THEN Answer(409, FALSE, DataUndefined) ELSE Answer(201, TRUE, DataObject(arg))
      [] op = "getSection" ->
           IF arg \in b.sections THEN Answer(200, TRUE, DataObject(arg)) ELSE Answer(404, FALSE, DataUndefined)
      [] op = "getSubnet" ->
           IF arg \in b.subnets THEN Answer(200, TRUE, DataObject(arg)) ELSE Answer(404, FALSE, DataUndefined)

BackendAfter(b, op, arg) ==
    CASE op = "createSection" -> [b EXCEPT !.sections = @ \cup {arg}, !.creates = Append(@, "section")]
      [] op = "createSubnet" -> [b EXCEPT !.subnets = @ \cup {arg}, !.creates = Append(@, "subnet")]
      [] OTHER -> b

\* the creates the server has received for a kind of entity
Creates(kind) == Len(SelectSeq(backend.creates, LAMBDA k : k = kind))

EnsureTools == {"phpipam.sections.ensure", "phpipam.subnets.ensure"}

\* writes and creation allowed, the token mode, no retry, caching off and on
EnsureConfigs == {WithToggles(TokenOnly(FALSE, e, 0, 1000), TRUE, TRUE, TRUE) : e \in BOOLEAN}

\* an ensure tool is invoked for the name or cidr "7", after every earlier
\* invocation has returned
InvokeEnsure(p) ==
    /\ boot = "ready"
    /\ Quiet /\ FreeCaller(p)
    /\ Len(backend.creates) < MaxCreates
    /\ \E tool \in EnsureTools : CallTool(p, tool, "id", "7")

BackendResponse(p) ==
    /\ ApiResponseWith(p, BackendReply(backend, calls[p].op, calls[p].arg))
    /\ backend' = BackendAfter(backend, calls[p].op, calls[p].arg)

NextEnsure ==
    \/ Tick
    \/ \E p \in Callers : InvokeEnsure(p)
    \/ \E p \in Callers : SendApi(p)
    \/ \E p \in Callers : BackendResponse(p)
    \/ \E p \in Callers : Return(p)

SpecEnsure == Constructed(EnsureConfigs) /\ [][NextEnsure]_vars

\* ---- request() called with a path and a body of the caller's choice ----

\* the longest path, in parts between slashes
MaxParts == 4

\* path.split('/') of a path: at least one part, empty ones where slashes meet
RawPaths ==
    UNION {[1..n -> {"", "sections", "7", "subnets"}] : n \in 1..MaxParts}

RawBodies ==
    {NoBody, Body(TRUE, {}), Body(TRUE, {<<"name", "n">>}), Body(TRUE, {<<"id", "9">>}),
     Body(TRUE, {<<"controller", "x">>, <<"name", "n">>})}

ParamConfigs == {TokenOnly(FALSE, FALSE, 1, 1000)}

ParamReplies ==
    {HttpReply(200, JsonResponse(200, TRUE, DataObject("7"), NoValue), PlainText(120)),
     HttpReply(503, JsonResponse(503, FALSE, DataUndefined, NoValue), PlainText(120))}

\* client.request({ method, path, body })
InvokeRequest(p) ==
    /\ boot = "ready"
    /\ Quiet /\ FreeCaller(p)
    /\ \E path \in RawPaths, body \in RawBodies :
          LET c == [IdleCall EXCEPT !.method = "request", !.op = "request",
                                    !.path = path, !.body = body]
              next == EnterRequest(c)
          IN  /\ calls' = [calls EXCEPT ![p] = next]
              /\ log' = log \cup LinesOnEnter(c, next)
    /\ UNCHANGED <<config, backend, boot, useCrypt, authToken, tokenExpires, loginAt, cache,
                   now, ticks>>

ParamResponse(p) == ApiResponseFrom(p, ParamReplies)

NextParams ==
    \/ \E p \in Callers : InvokeRequest(p)
    \/ \E p \in Callers : SendApi(p)
    \/ \E p \in Callers : ParamResponse(p)
    \/ \E p \in Callers : Wake(p)
    \/ \E p \in Callers : Return(p)

SpecParams == Constructed(ParamConfigs) /\ [][NextParams]_vars

\* ---- calls whose every exchange completes and whose timers fire ----

\* PHPIPAM_MAX_RETRIES is any integer the environment holds: a negative
\* bound, none, one, and the largest; the password mode with one retry
LiveConfigs ==
    {TokenOnly(FALSE, FALSE, r, 1000) : r \in {0 - 1, 0, 1, MaxRetriesBound}}
    \cup {PasswordOnly(FALSE, FALSE, 1, 1000)}

InvokeLive(p) ==
    /\ boot = "ready"
    /\ Quiet /\ FreeCaller(p)
    /\ \E op \in {"getSection", "listSubnets"} : Start(p, NoValue, op, "7")

NextLive ==
    \/ \E p \in Callers : InvokeLive(p)
    \/ \E p \in Callers : LoginResponse(p)
    \/ \E p \in Callers : SendApi(p)
    \/ \E p \in Callers : ApiResponse(p)
    \/ \E p \in Callers : Wake(p)
    \/ \E p \in Callers : Return(p)

\* every exchange completes, every sleep ends, every continuation runs
Completion ==
    \A p \in Callers :
        /\ WF_vars(LoginResponse(p))
        /\ WF_vars(SendApi(p))
        /\ WF_vars(ApiResponse(p))
        /\ WF_vars(Wake(p))

SpecLive == Constructed(LiveConfigs) /\ [][NextLive]_vars /\ Completion

\* the process from its start, for every environment
InitCfg ==
    /\ config \in RawConfigs
    /\ boot = "start"
    /\ useCrypt = FALSE
    /\ authToken = Null
    /\ tokenExpires = 0
    /\ loginAt = 0
    /\ cache = <<>>
    /\ now = 0
    /\ ticks = 0
    /\ calls = [p \in Callers |-> IdleCall]
    /\ log = {}
    /\ backend = EmptyBackend

SpecCfg == InitCfg /\ [][Main]_vars

\* the client with HTTP debugging switched on
DebugConfigs == {TokenOnly(TRUE, FALSE, 1, 1000), PasswordOnly(TRUE, FALSE, 1, 1000)}

SpecDebug == Constructed(DebugConfigs) /\ [][Next]_vars

\* the status codes a failure is reported with: the five mapApiError names,
\* their neighbours, both sides of 500, and others
MapCodes == {200, 204, 301, 400, 401, 402, 403, 404, 405, 408, 409, 410, 422, 429, 499,
             500, 501, 502, 503, 504, 599}

\* success=false responses over these codes, with and without a message, and
\* one without a code
ClassifiedReplies ==
    {HttpReply(c, JsonResponse(c, FALSE, DataUndefined, m), PlainText(120)) :
        c \in MapCodes, m \in {NoValue, "backend message"}}
    \cup {HttpReply(200, Json("object", NoNumber, <<FALSE>>, DataUndefined, NoValue), PlainText(120))}

\* an API exchange is answered with one of the failures above
Classify(p) == ApiResponseFrom(p, ClassifiedReplies)

\* clients that do not retry, so that every failure is the call's outcome
MapConfigs == {TokenOnly(FALSE, FALSE, 0, 1000), PasswordOnly(FALSE, FALSE, 0, 1000)}

NextMap ==
    \E p \in Callers :
        \/ Invoke(p)
        \/ LoginResponse(p)
        \/ SendApi(p)
        \/ Classify(p)
        \/ Return(p)

SpecMap == Constructed(MapConfigs) /\ [][NextMap]_vars

\* ---- the process from its start to the answers of its tools ----

\* an API exchange is answered with any reply, of any status code
AnyResponse(p) == ApiResponseFrom(p, ApiReplies \cup ClassifiedReplies)

NextErrors ==
    \/ Main
    \/ \E p \in Callers : InvokeAnyTool(p)
    \/ \E p \in Callers : LoginResponse(p)
    \/ \E p \in Callers : SendApi(p)
    \/ \E p \in Callers : AnyResponse(p)
    \/ \E p \in Callers : Wake(p)
    \/ \E p \in Callers : Return(p)

\* environments of every mode value, with no credential, the token alone
\* and the username and password alone, and one retry
ErrorConfigs ==
    {MakeConfig(m, cr[1], cr[2], cr[3], FALSE, FALSE, 1, 1000) :
        m \in AuthModes \cup {"basic"},
        cr \in {<<NoValue, NoValue, NoValue>>, <<"t1", NoValue, NoValue>>,
                <<NoValue, "admin", "pw">>}}

InitErrors ==
    /\ config \in ErrorConfigs
    /\ boot = "start"
    /\ useCrypt = FALSE
    /\ authToken = Null
    /\ tokenExpires = 0
    /\ loginAt = 0
    /\ cache = <<>>
    /\ now = 0
    /\ ticks = 0
    /\ calls = [p \in Callers |-> IdleCall]
    /\ log = {}
    /\ backend = EmptyBackend

SpecErrors == InitErrors /\ [][NextErrors]_vars

-----------------------------------------------------------------------------
(* Properties *)

Mode == getEffectiveAuthMode(config)

\* the backend answered the call's last API exchange with success=false and
\* this code
FailedWith(c, code) ==
    /\ c.reply.t = "http"
    /\ c.reply.json.shape = "object"
    /\ c.reply.json.success = <<FALSE>>
    /\ c.reply.json.code = <<code>>

\* the backend answered the call's last API exchange with success=true and
\* this data
SucceededWith(c, data) ==
    /\ c.reply.t = "http"
    /\ c.reply.json.shape = "object"
    /\ c.reply.json.success = <<TRUE>>
    /\ c.reply.json.data = data

\* retryDelay * 2^0, ..., retryDelay * 2^(n-1)
Backoffs(n) == [i \in 1..n |-> config.retryDelay * Pow2(i - 1)]

\* a call that issued no login and has had only retryable failures so far
RetryingCall(c) == c.logins = 0 /\ c.onlyRetryable /\ c.attempts > 0

Secrets == ({config.password, config.token} \cup SessionTokens) \ {NoValue, ""}

\* C2: with debugHttp enabled, no line httpRequest writes to the diagnostic
\* log, for the login exchange or any API exchange, contains the password,
\* the static token or the session token returned by the login.
C2_NoSecretLogged ==
    config.debugHttp => \A l \in log : l.shows \cap Secrets = {}

\* C3: in password mode a success=false response with code 401 ends the call
\* with the cached session token cleared, and a call that enters request()
\* while the token is cleared issues a login exchange before any API
\* exchange.
C3_Step ==
    Mode = "password" =>
        \A p \in Callers :
            /\ (calls[p].pc = "apiWait" /\ calls'[p].pc # "apiWait" /\ FailedWith(calls'[p], 401)) =>
                    /\ authToken' = Null
                    /\ calls'[p].pc = "done"
            /\ (authToken = Null /\ calls[p].pc \in {"idle", "sleep"} /\ calls'[p].pc \notin {"idle", "sleep", "done"}) =>
                    /\ calls'[p].pc = "loginWait"
                    /\ calls'[p].logins = calls[p].logins + 1
                    /\ calls'[p].attempts = calls[p].attempts
                    /\ calls'[p].token = NoValue

C3_ClearedOn401ThenLogin == [][C3_Step]_vars

\* a token was cached and then cleared before its expiry (only a 401 does
\* that), and the next call is waiting for its login
C3_Witness ==
    /\ Mode = "password"
    /\ authToken = Null
    /\ now < tokenExpires
    /\ \E p \in Callers :
        /\ calls[p].pc = "loginWait"
        /\ calls[p].attempts = 0

\* C4: in password mode getAuthToken returns a token only while
\* now < T + 5 hours, T being the completion of the login that cached it;
\* at or after T + 5 hours it logs in again.
C4_TokenFreshness ==
    Mode = "password" =>
        /\ Truthy(authToken) => tokenExpires = loginAt + FiveHours
        /\ \A p \in Callers :
            calls[p].pc = "token" =>
                /\ Truthy(calls[p].token)
                /\ now < loginAt + FiveHours

\* a call made exactly five hours after the login finds the token still
\* cached and logs in again
C4_Witness ==
    /\ Mode = "password"
    /\ Truthy(authToken)
    /\ now = loginAt + FiveHours
    /\ \E p \in Callers : calls[p].pc = "loginWait" /\ calls[p].attempts = 0

\* C5 as stated: whenever a static token is present, getEffectiveAuthMode
\* returns 'token', whatever authMode is and whether or not username and
\* password are present too (read on the configurations the server starts
\* with, where the constructor applies it).
C5_TokenAlwaysWins ==
    (boot = "ready" /\ HasToken(config)) =>
        /\ getEffectiveAuthMode(config) = "token"
        /\ useCrypt

\* C5 amended: whenever a static token is present and authMode is not
\* 'password', getEffectiveAuthMode returns 'token', whether or not username
\* and password are present too; with authMode 'password' it returns
\* 'password'.
C5_TokenWinsUnlessPasswordMode ==
    /\ (HasToken(config) /\ config.authMode # "password") =>
            /\ getEffectiveAuthMode(config) = "token"
            /\ boot = "ready" => useCrypt
    /\ config.authMode = "password" =>
            /\ getEffectiveAuthMode(config) = "password"
            /\ boot = "ready" => ~useCrypt

\* started in auto mode with a token, a username and a password
C5_Witness ==
    /\ boot = "ready"
    /\ config.authMode = "auto"
    /\ HasToken(config)
    /\ HasPassword(config)
    /\ useCrypt

\* C6: an accepted configuration with username and password and no static
\* token has the effective mode 'password'.
C6_PasswordOnlyIsPassword ==
    (Accepted(config) /\ HasPassword(config) /\ ~HasToken(config)) =>
        /\ getEffectiveAuthMode(config) = "password"
        /\ boot = "ready" => ~useCrypt

\* started in auto mode with a username and a password and an empty token
C6_Witness ==
    /\ boot = "ready"
    /\ config.authMode = "auto"
    /\ HasPassword(config)
    /\ config.token = ""
    /\ ~useCrypt

\* C7: in token mode getAuthToken returns the static token on every call,
\* no login exchange is ever issued, and authToken and tokenExpires stay as
\* constructed, 401 responses included.
C7_TokenModeFrame ==
    Mode = "token" =>
        /\ authToken = Null
        /\ tokenExpires = 0
        /\ \A p \in Callers :
            /\ calls[p].pc # "loginWait"
            /\ calls[p].logins = 0
            /\ calls[p].sent.exchange # "login"
            /\ calls[p].pc \in {"token", "apiWait", "sleep"} => calls[p].token = config.token
            /\ calls[p].attempts > 0 => calls[p].token = config.token

\* a call made with the static token has been answered 401, and the session
\* state is as constructed
C7_Witness ==
    /\ Mode = "token"
    /\ authToken = Null
    /\ tokenExpires = 0
    /\ \E p \in Callers :
        /\ calls[p].pc = "done"
        /\ FailedWith(calls[p], 401)
        /\ calls[p].token = config.token
        /\ calls[p].req.error.code = "AUTH"

EmptyCollection(op) == IF op = "search" THEN DataSearch(DataList(<<>>)) ELSE DataList(<<>>)

\* C8: listSubnets, listAddresses, search and searchByHostname return an
\* empty collection when the backend answers success=false with code 404.
C8_ListsEmptyOn404 ==
    \A p \in Callers :
        LET c == calls[p]
        IN  (c.pc = "done" /\ c.op \in {"listSubnets", "listAddresses", "search", "searchByHostname"}
                /\ FailedWith(c, 404)) =>
                c.result = Returned(EmptyCollection(c.op))

\* search has been answered 404 and has returned its empty result
C8_Witness ==
    \E p \in Callers :
        /\ calls[p].pc = "done"
        /\ calls[p].op = "search"
        /\ FailedWith(calls[p], 404)
        /\ calls[p].result = Returned(DataSearch(DataList(<<>>)))

\* C9: getAddress, getSubnet and getSection fail with a NOT_FOUND error of
\* status code 404 when the backend answers success=false with code 404.
C9_ByIdNotFoundOn404 ==
    \A p \in Callers :
        LET c == calls[p]
        IN  (c.pc = "done" /\ c.op \in {"getAddress", "getSubnet", "getSection"} /\ FailedWith(c, 404)) =>
                /\ c.result.kind = "error"
                /\ c.result.error.php
                /\ c.result.error.code = "NOT_FOUND"
                /\ c.result.error.statusCode = <<404>>

\* getSection has been answered 404 and has thrown
C9_Witness ==
    \E p \in Callers :
        /\ calls[p].pc = "done"
        /\ calls[p].op = "getSection"
        /\ FailedWith(calls[p], 404)
        /\ calls[p].result.kind = "error"
        /\ calls[p].result.error.code = "NOT_FOUND"

\* the replies the lookups by secondary key answer with null
AbsentReply(c) ==
    \/ SucceededWith(c, DataList(<<>>))
    \/ SucceededWith(c, DataUndefined)
    \/ FailedWith(c, 404)

\* C10: getSubnetByCidr and getAddressByIp return null when the backend
\* answers success=true with an empty or missing data list and when the
\* answer is classified NOT_FOUND; subnets.get and addresses.get then fail
\* with a NOT_FOUND error of their own.
C10_ByKeyAbsent ==
    \A p \in Callers :
        LET c == calls[p]
        IN  (c.pc = "done" /\ c.op \in {"getSubnetByCidr", "getAddressByIp"} /\ AbsentReply(c)) =>
                /\ c.result = Returned(DataNull)
                /\ c.tool \in LookupTools =>
                        /\ c.out.kind = "error"
                        /\ c.out.error.php
                        /\ c.out.error.code = "NOT_FOUND"
                        /\ c.out.error.statusCode = NoNumber
                        /\ c.out.error.message \in {"Subnet not found: " \o c.arg, "Address not found: " \o c.arg}

\* subnets.get by CIDR got an empty list and failed with its own NOT_FOUND
C10_Witness ==
    \E p \in Callers :
        /\ calls[p].pc = "done"
        /\ calls[p].tool = "phpipam.subnets.get"
        /\ calls[p].op = "getSubnetByCidr"
        /\ SucceededWith(calls[p], DataList(<<>>))
        /\ calls[p].result = Returned(DataNull)
        /\ calls[p].out.error.code = "NOT_FOUND"

\* the kind the classification table gives a status code
ExpectedKind(code) ==
    CASE code = <<401>> -> "AUTH"
      [] code = <<403>> -> "FORBIDDEN"
      [] code = <<404>> -> "NOT_FOUND"
      [] code = <<409>> -> "CONFLICT"
      [] code # <<>> /\ code \notin {<<401>>, <<403>>, <<404>>, <<409>>} /\ code[1] >= 500 -> "RETRYABLE"
      [] OTHER -> "VALIDATION"

\* the call's last API exchange was answered with a success=false response
Failed(c) ==
    /\ c.reply.t = "http"
    /\ c.reply.json.shape = "object"
    /\ c.reply.json.success = <<FALSE>>

\* C11: for every success=false response the error of mapApiError has the
\* kind the status code alone determines (401 AUTH, 403 FORBIDDEN, 404
\* NOT_FOUND, 409 CONFLICT, 500 and above RETRYABLE, anything else
\* VALIDATION) and carries that status code.
C11_KindByStatusCode ==
    \A p \in Callers :
        LET c == calls[p]
        IN  (c.pc = "done" /\ Failed(c)) =>
                /\ c.req.kind = "error"
                /\ c.req.error.php
                /\ c.req.error.code = ExpectedKind(c.reply.json.code)
                /\ c.req.error.statusCode = c.reply.json.code
                /\ c.req.error.retryable = (ExpectedKind(c.reply.json.code) = "RETRYABLE")

\* a failure with code 500 has been classified RETRYABLE
C11_Witness ==
    \E p \in Callers :
        /\ calls[p].pc = "done"
        /\ FailedWith(calls[p], 500)
        /\ calls[p].req.error.code = "RETRYABLE"
        /\ calls[p].req.error.statusCode = <<500>>

\* the kinds that are not retried
FinalKinds == {"AUTH", "FORBIDDEN", "NOT_FOUND", "CONFLICT", "VALIDATION"}

\* the first API exchange of the call has been answered, and the answer was
\* a success=false response of a kind that is not retried, or a body that
\* does not parse under a status below 500 (a VALIDATION error)
FirstExchangeFinal(c) ==
    /\ c.attempts = 1
    /\ c.retryCount = 0
    /\ c.pc \notin {"apiWait", "token"}
    /\ \/ Failed(c) /\ ExpectedKind(c.reply.json.code) \in FinalKinds
       \/ c.reply.t = "http" /\ c.reply.json.shape = "invalid" /\ c.reply.status < 500

\* C12: a call whose first API exchange yields an AUTH, FORBIDDEN,
\* NOT_FOUND, CONFLICT or VALIDATION error makes exactly one API exchange,
\* sleeps for no backoff, and throws that error, whatever maxRetries is.
C12_FinalErrorsNotRetried ==
    \A p \in Callers :
        LET c == calls[p]
        IN  FirstExchangeFinal(c) =>
                /\ c.pc = "done"
                /\ c.waits = <<>>
                /\ c.req.kind = "error"
                /\ c.req.error.php
                /\ c.req.error.code \in FinalKinds
                /\ Failed(c) => /\ c.req.error.code = ExpectedKind(c.reply.json.code)
                                /\ c.req.error.statusCode = c.reply.json.code

\* with the largest retry budget, a call has ended on a 409 after one
\* exchange
C12_Witness ==
    \E p \in Callers :
        /\ config.maxRetries = MaxRetriesBound
        /\ FirstExchangeFinal(calls[p])
        /\ FailedWith(calls[p], 409)
        /\ calls[p].pc = "done"
        /\ calls[p].req.error.code = "CONFLICT"


-----------------------------------------------------------------------------
(* C13: the write toggles *)

\* the toggles refuse this tool under the configuration
Gated(tool) ==
    \/ tool \in WriteTools /\ ~config.writeEnabled
    \/ tool = "phpipam.subnets.ensure" /\ ~config.allowSubnetCreate
    \/ tool = "phpipam.sections.ensure" /\ ~config.allowSectionCreate

\* the tool call failed with FORBIDDEN and no exchange, login or API, was made for it
RefusedUnsent(c) ==
    /\ c.pc = "done"
    /\ c.out.kind = "error" /\ c.out.error.php /\ c.out.error.code = "FORBIDDEN"
    /\ c.response.isError /\ c.response.error = "FORBIDDEN"
    /\ c.sent = NothingSent /\ c.attempts = 0 /\ c.logins = 0

WriteGatesHold ==
    \A p \in Callers : (calls[p].tool \in WriteTools /\ Gated(calls[p].tool)) => RefusedUnsent(calls[p])

\* C13 as stated: with writeEnabled false the five write tools, and with its
\* creation toggle false each ensure tool, fail with FORBIDDEN before any
\* network exchange, and under writeEnabled false no request of any tool
\* call, the login included, is a POST, PATCH or DELETE
C13_NoWriteVerbAtAll ==
    /\ WriteGatesHold
    /\ ~config.writeEnabled =>
         \A p \in Callers : calls[p].tool # NoValue => calls[p].sent.method \notin {"POST", "PATCH", "DELETE"}

\* C13 amended: with writeEnabled false the five write tools, and with its
\* creation toggle false each ensure tool, fail with FORBIDDEN before any
\* network exchange, and under writeEnabled false every API request of a
\* tool call is a GET; the only other request is the login of the password
\* mode, a POST
C13_WritesGated ==
    /\ WriteGatesHold
    /\ ~config.writeEnabled =>
         \A p \in Callers : calls[p].tool # NoValue =>
            \/ calls[p].sent = NothingSent
            \/ calls[p].sent.exchange = "api" /\ calls[p].sent.method = "GET"
            \/ calls[p].sent.exchange = "login" /\ calls[p].sent.method = "POST" /\ Mode = "password"

\* a write tool refused by the write toggle, and an ensure tool refused by
\* its creation toggle alone, both without an exchange
C13_Witness ==
    \E p \in Callers :
        /\ calls[p].tool = "phpipam.subnets.ensure"
        /\ config.writeEnabled /\ ~config.allowSubnetCreate
        /\ RefusedUnsent(calls[p])


-----------------------------------------------------------------------------
(* C14: what the public methods throw *)

\* the methods the claim lists: every public method but health
ListedMethods == PublicMethods \ {"health"}

\* C14: every failure of a listed public method, called on its own, is a
\* PhpIpamError whose kind is one of the seven kinds, whatever the backend
\* answered to the login and to the API exchanges
C14_FailuresArePhpIpamErrors ==
    \A p \in Callers :
        LET c == calls[p]
        IN  (c.pc = "done" /\ c.tool = NoValue /\ c.method \in ListedMethods /\ c.result.kind = "error")
                => c.result.error.php /\ c.result.error.code \in ErrorCodes


-----------------------------------------------------------------------------
(* C15: the cache *)

\* the entry under key is new or has changed in this step
Written(key) == key \in DOMAIN cache' /\ (key \notin DOMAIN cache \/ cache'[key] # cache[key])

\* the call was answered from the cache in this step
ServedFromCache(p) == calls[p].pc = "idle" /\ calls'[p].pc = "done" /\ calls'[p].method \in CachedOps

C15_Step ==
    /\ \A key \in DOMAIN cache' :
         Written(key) =>
            /\ config.enableCache
            /\ cache'[key].expires = now + CacheTtl
            /\ \E p \in Callers :
                 /\ calls[p].pc = "apiWait" /\ calls[p].op \in CachedOps
                 /\ key = CacheKey(calls[p].op, calls[p].arg)
                 /\ calls'[p].req = Returned(cache'[key].data)
                 /\ SucceededWith(calls'[p], cache'[key].data)
    /\ \A p \in Callers :
         LET key == CacheKey(calls'[p].method, calls'[p].arg)
         IN  /\ ServedFromCache(p) =>
                  /\ config.enableCache /\ key \in DOMAIN cache
                  /\ now <= cache[key].expires
                  /\ calls'[p].result = Returned(cache[key].data)
             /\ (calls[p].pc = "idle" /\ calls'[p].pc # "idle" /\ calls'[p].method \in CachedOps
                    /\ config.enableCache /\ key \in DOMAIN cache /\ now > cache[key].expires) =>
                  /\ key \notin DOMAIN cache'
                  /\ calls'[p].pc = "token" /\ calls'[p].result = Pending

\* C15: a cache entry is written only when an API exchange of a cached
\* method returned success with caching enabled, with expiry now + 60 s,
\* never by a failed request or a NOT_FOUND turned into an empty list; a read
\* returns an entry only while now <= its expiry, and past it the entry is
\* dropped and the request is made
C15_CacheWrittenOnSuccessReadUntilExpiry == [][C15_Step]_vars

\* a read answered from the cache at the very instant of the entry's expiry
C15_Witness ==
    \E p \in Callers :
        /\ calls[p].pc = "done" /\ calls[p].method = "listSections" /\ calls[p].attempts = 0
        /\ calls[p].result.kind = "value"
        /\ "sections" \in DOMAIN cache /\ now = cache["sections"].expires


-----------------------------------------------------------------------------
(* C16: what changes the session *)

\* the login of the call completed and getAuthToken returned a token
LoginSucceeded(p) == calls[p].pc = "loginWait" /\ calls'[p].pc = "token"
\* the login of the call completed and getAuthToken threw
LoginFailed(p) == calls[p].pc = "loginWait" /\ calls'[p].pc = "done"
\* the API exchange of the call was answered with success=false and code 401
Rejected401(p) == calls[p].pc = "apiWait" /\ calls'[p].pc # "apiWait" /\ FailedWith(calls'[p], 401)

C16_Step ==
    /\ (authToken' # authToken \/ tokenExpires' # tokenExpires) =>
         \E p \in Callers : (Mode = "password" /\ LoginSucceeded(p)) \/ Rejected401(p)
    /\ \A p \in Callers :
         /\ LoginSucceeded(p) =>
              /\ Truthy(authToken') /\ authToken' = calls'[p].token
              /\ tokenExpires' = now + FiveHours
         /\ Rejected401(p) => authToken' = Null /\ tokenExpires' = tokenExpires
         /\ LoginFailed(p) => authToken' = authToken /\ tokenExpires' = tokenExpires

\* C16: the cached token and its expiry change only when a password-mode
\* login succeeds, which sets both, and when an API exchange is answered
\* 401, which clears the token and keeps the expiry; a failed login and every
\* other step leave both unchanged
C16_SessionChangesOnlyByLoginAnd401 == [][C16_Step]_vars

\* a login failed after an earlier login had succeeded; what the earlier
\* one stored is still there
C16_Witness ==
    /\ Mode = "password"
    /\ tokenExpires = loginAt + FiveHours
    /\ \E p \in Callers :
        /\ calls[p].pc = "done" /\ calls[p].logins = 1 /\ calls[p].attempts = 0
        /\ calls[p].req.kind = "error"


-----------------------------------------------------------------------------
(* C17: interleaved calls *)

\* the call entered getAuthToken in this step and got the cached token
ReadSession(p) == calls[p].pc \in {"idle", "sleep"} /\ calls'[p].pc = "token"

C17_Step ==
    /\ Truthy(authToken) => tokenExpires = loginAt + FiveHours
    /\ \A p \in Callers :
         /\ LoginSucceeded(p) =>
              /\ authToken' = calls'[p].token /\ Truthy(authToken')
              /\ tokenExpires' = now + FiveHours /\ loginAt' = now
         /\ ReadSession(p) =>
              /\ Truthy(authToken) /\ calls'[p].token = authToken
              /\ now < tokenExpires /\ tokenExpires = loginAt + FiveHours
    /\ (\A p \in Callers : ~LoginSucceeded(p)) =>
         /\ authToken' \in {authToken, Null}
         /\ tokenExpires' = tokenExpires /\ loginAt' = loginAt

\* C17: with calls interleaved at their awaits in password mode, the cached
\* token is always paired with the expiry that the login which stored the
\* token stored with it: a login that completes replaces the pair by its
\* own token and its own completion time + 5 hours whatever was there (the
\* last writer wins), no other step changes the expiry or stores a token, and
\* a caller that takes the cached token takes it with that expiry ahead
C17_NoTornSession == [][C17_Step]_vars

\* two logins in flight at once have completed at different times with
\* different tokens, and the session holds the pair of the later one
C17_Witness ==
    \E p, q \in Callers :
        /\ p # q
        /\ calls[p].pc = "apiWait" /\ calls[q].pc = "token"
        /\ calls[p].logins = 1 /\ calls[q].logins = 1
        /\ Truthy(calls[p].token) /\ Truthy(calls[q].token) /\ calls[p].token # calls[q].token
        /\ authToken = calls[q].token
        /\ loginAt > 0 /\ tokenExpires = now + FiveHours


-----------------------------------------------------------------------------
(* C18: the two transports *)

-----------------------------------------------------------------------------
(* C19: errors on their way out of the client *)

\* request() threw NOT_FOUND to a method whose catch clause turns it into
\* an empty collection or null
Normalised(c) == c.op \in EmptyOnNotFound \cup NullOnNotFound /\ IsNotFound(c.req.error)

\* what request() threw after its last exchange is what that exchange produced
LastAttemptSurfaced(c) ==
    c.attempts >= 1 => c.req = AttemptOutcome(httpRequest(c.reply)) /\ c.attempts = c.retryCount + 1

\* C19 as stated: whenever request() throws to a public method, retries
\* exhausted or not, the error is that of the last attempt and, unless it is
\* a NOT_FOUND that the method normalises, the method throws it unchanged
C19_AllErrorsPropagate ==
    \A p \in Callers :
        LET c == calls[p]
        IN  (c.pc = "done" /\ c.req.kind = "error") =>
                /\ LastAttemptSurfaced(c)
                /\ IF Normalised(c) THEN c.result.kind = "value" ELSE c.result = c.req

\* C19 amended: whenever request() throws to a public method other than
\* health, retries exhausted or not, the error is that of the last attempt
\* and, unless it is a NOT_FOUND that the method normalises, the method
\* throws it unchanged; health returns every error as an unhealthy status
C19_ErrorsPropagateButHealth ==
    \A p \in Callers :
        LET c == calls[p]
        IN  (c.pc = "done" /\ c.req.kind = "error") =>
                /\ LastAttemptSurfaced(c)
                /\ IF c.method = "health" THEN c.result = Returned(Data("health", <<"false">>))
                   ELSE IF Normalised(c) THEN c.result.kind = "value"
                   ELSE c.result = c.req

\* a list method that normalises NOT_FOUND throws the RETRYABLE error of its
\* last attempt, retries exhausted, as it received it
C19_Witness ==
    \E p \in Callers :
        /\ calls[p].pc = "done" /\ calls[p].method = "listSubnets"
        /\ calls[p].retryCount = config.maxRetries /\ calls[p].retryCount >= 1
        /\ calls[p].req.kind = "error" /\ calls[p].req.error.code = "RETRYABLE"
        /\ calls[p].result = calls[p].req


-----------------------------------------------------------------------------
(* C20: the CallTool handler *)

\* C20: every tool invocation that handleTool has settled, an unknown tool
\* name and every error of the client included, has a response; the response
\* is an error exactly when handleTool threw, and then carries one of the
\* seven codes: the code and the retryable flag of a PhpIpamError, and
\* INTERNAL with no flag for any other exception
C20_HandlerAlwaysAnswers ==
    \A p \in Callers :
        LET c == calls[p]
        IN  (c.tool # NoValue /\ c.pc = "done") =>
                /\ c.out.kind \in {"value", "error"}
                /\ c.response # NoToolResponse
                /\ c.response.isError = (c.out.kind = "error")
                /\ c.response.isError =>
                     /\ c.response.error \in ErrorCodes
                     /\ IF c.out.error.php
                        THEN /\ c.response.error = c.out.error.code
                             /\ c.response.retryable = <<c.out.error.retryable>>
                        ELSE c.response.error = "INTERNAL" /\ c.response.retryable = <<>>

\* a TypeError raised inside the client (a create answered without data)
\* comes out of the handler as an INTERNAL error response
C20_Witness ==
    \E p \in Callers :
        /\ calls[p].tool = "phpipam.sections.ensure" /\ calls[p].pc = "done"
        /\ calls[p].method = "createSection"
        /\ calls[p].out.kind = "error" /\ ~calls[p].out.error.php
        /\ calls[p].response.isError /\ calls[p].response.error = "INTERNAL"


-----------------------------------------------------------------------------
(* C21: a retryable error of the login exchange *)

\* the call ended in its login exchange: nothing was sent after the login
EndedInLogin(c) == c.pc = "done" /\ c.sent.exchange = "login" /\ c.req.kind = "error"

\* C21: a call whose login exchange fails with a retryable error (timeout
\* or connection failure) while its attempt count is below maxRetries does
\* not end there: it waits retryDelay * 2^attempt and enters getAuthToken
\* again, so a call that ended in its login with a retryable error has used
\* up its retries
C21_LoginFailureRetried ==
    \A p \in Callers :
        (EndedInLogin(calls[p]) /\ calls[p].req.error.retryable) =>
            /\ calls[p].retryCount >= config.maxRetries
            /\ calls[p].waits = Backoffs(config.maxRetries)

-----------------------------------------------------------------------------
(* C22: exceptions that are no PhpIpamError *)

\* C22: request() never throws anything but a PhpIpamError: an exception of
\* another kind raised in the course of the call (a null body read as a
\* response, in the login exchange or in the API exchange) reaches the
\* caller as INTERNAL with retryable false, and the call ends with it
\* without a wait or a further attempt
C22_UnexpectedBecomesInternal ==
    \A p \in Callers :
        LET c == calls[p]
        IN  /\ (c.pc = "done" /\ c.req.kind = "error") =>
                    /\ c.req.error.php
                    /\ c.req.error.code = "INTERNAL" => ~c.req.error.retryable
            /\ (c.pc \in {"sleep", "done"} /\ c.reply.t = "http" /\ c.reply.json = JsonNull) =>
                    /\ c.pc = "done"
                    /\ c.req.kind = "error" /\ c.req.error.code = "INTERNAL"

-----------------------------------------------------------------------------
(* C23: listSections and NOT_FOUND *)

\* C23: listSections returns an empty collection when the backend answers
\* its request with success=false and code 404
C23_ListSectionsEmptyOn404 ==
    \A p \in Callers :
        LET c == calls[p]
        IN  (c.pc = "done" /\ c.method = "listSections" /\ FailedWith(c, 404)) =>
                c.result = Returned(DataList(<<>>))


-----------------------------------------------------------------------------
(* C24: ensure, twice *)

\* C24: when sections.ensure or subnets.ensure is invoked repeatedly for the
\* same name or cidr, each invocation after the one before has returned,
\* against a server that stores what is created, the server receives at most
\* one create request for it, and an invocation for something the server
\* held when it was called returns the existing entity, caching on or off
C24_EnsureCreatesOnce ==
    /\ Creates("section") <= 1 /\ Creates("subnet") <= 1
    /\ \A p \in Callers :
        LET c == calls[p]
        IN  (c.pc = "done" /\ c.tool \in EnsureTools) =>
                /\ c.out.kind = "value"
                /\ c.out.value.t = "created" =>
                     Creates(IF c.tool = "phpipam.sections.ensure" THEN "section" ELSE "subnet") = 1


-----------------------------------------------------------------------------
(* C25: health *)

Healthy(b) == Returned(Data("health", <<IF b THEN "true" ELSE "false">>))

\* C25: health() never throws; every invocation makes an exchange with the
\* backend, and it reports healthy=true only when its API exchange was
\* answered with success, healthy=false when request() threw
C25_HealthProbesBackend ==
    \A p \in Callers :
        LET c == calls[p]
        IN  (c.pc = "done" /\ c.method = "health") =>
                /\ c.result \in {Healthy(TRUE), Healthy(FALSE)}
                /\ c.sent # NothingSent
                /\ c.result = Healthy(TRUE) =>
                     c.attempts >= 1 /\ c.reply.t = "http" /\ c.reply.json.success = <<TRUE>>
                /\ c.req.kind = "error" => c.result = Healthy(FALSE)


-----------------------------------------------------------------------------
(* C26: what httpRequest resolves to *)

\* C26: for every HTTP response received, httpRequest resolves to a value
\* with a numeric code and a boolean success; for a body that does not
\* parse, the code is the HTTP status, success is false and the message
\* holds at most the first 200 characters of the body
C26_ResolvedShape ==
    \A p \in Callers :
        calls[p].reply.t = "http" =>
            LET reply == calls[p].reply
                r == httpRequest(reply)
            IN  /\ r.ok /\ ~r.response.isNull
                /\ r.response.code # NoNumber
                /\ r.response.success \in {<<TRUE>>, <<FALSE>>}
                /\ reply.json.shape = "invalid" =>
                     /\ r.response.code = Some(reply.status)
                     /\ r.response.success = <<FALSE>>
                     /\ r.response.excerpt = Min(reply.text.len, 200)

-----------------------------------------------------------------------------
(* C27: logins in flight *)

LoginsInFlight == {p \in Callers : calls[p].pc = "loginWait"}

\* C27 as stated: in password mode at most one login exchange is in flight
\* at any time
C27_OneLoginInFlight == Mode = "password" => Cardinality(LoginsInFlight) <= 1

\* the call enters getAuthToken in this step
EntersRequest(p) == calls[p].pc \in {"idle", "sleep"} /\ calls'[p].pc \in {"loginWait", "token"}

\* C27 amended: in password mode logins are not shared: a caller that
\* enters getAuthToken issues its own login exactly when the cached token is
\* missing or expired at that moment, whether or not a login of another
\* caller is in flight, so up to one login per caller is in flight at a time
C27_Step ==
    Mode = "password" =>
        \A p \in Callers :
            EntersRequest(p) =>
                /\ (calls'[p].pc = "loginWait") = ~(Truthy(authToken) /\ now < tokenExpires)
                /\ calls'[p].pc = "loginWait" =>
                     /\ calls'[p].sent.exchange = "login"
                     /\ LoginsInFlight \subseteq {q \in Callers : calls'[q].pc = "loginWait"}

C27_EachCallerLogsIn == [][C27_Step]_vars

\* two callers found no cached token and each has its own login in flight
C27_Witness ==
    /\ Mode = "password"
    /\ Cardinality(LoginsInFlight) = 2
    /\ \A p \in LoginsInFlight : calls[p].sent.exchange = "login" /\ calls[p].logins = 1



\* ---- C28 ----

\* the positions of the non-empty parts of a path, and the k-th of them
Filled(parts) == {i \in DOMAIN parts : parts[i] # ""}
FilledBefore(parts, i) == Cardinality({j \in Filled(parts) : j < i})

ValueOf(fields, name) == {f[2] : f \in {g \in fields : g[1] = name}}

\* C28: in encrypted mode the parameter object of a request holds every body
\* field; its controller is the body's when the body has one, else the first
\* non-empty path segment, or '' when the path has none; its id is the body's
\* when the body has one, else the second non-empty segment when there is one;
\* and it holds nothing else, so later segments are not represented
C28_ParamsFromPathAndBody ==
    \A p \in Callers :
        LET c == calls[p]
            bodyFields == IF c.body.given THEN c.body.fields ELSE {}
            first == {c.path[i] : i \in {j \in Filled(c.path) : FilledBefore(c.path, j) = 0}}
            second == {c.path[i] : i \in {j \in Filled(c.path) : FilledBefore(c.path, j) = 1}}
        IN  (useCrypt /\ c.pc = "apiWait") =>
                /\ bodyFields \subseteq c.params
                /\ ValueOf(c.params, "controller") =
                       (IF "controller" \in FieldNames(bodyFields)
                        THEN ValueOf(bodyFields, "controller")
                        ELSE IF first = {} THEN {""} ELSE first)
                /\ ValueOf(c.params, "id") =
                       (IF "id" \in FieldNames(bodyFields) THEN ValueOf(bodyFields, "id")
                        ELSE second)
                /\ FieldNames(c.params) \subseteq {"controller", "id"} \cup FieldNames(bodyFields)

\* a request in flight whose path has three segments between empty parts and
\* whose body names an id other than the path's
C28_Witness ==
    \E p \in Callers :
        /\ useCrypt /\ calls[p].pc = "apiWait"
        /\ calls[p].path = <<"", "sections", "7", "subnets">>
        /\ calls[p].body = Body(TRUE, {<<"id", "9">>})
        /\ calls[p].params = {<<"controller", "sections">>, <<"id", "9">>}


\* ---- C29 ----

\* the credential getAuthToken returns at once, when it needs no login
Credential == IF getEffectiveAuthMode(config) = "password" THEN authToken ELSE config.token

C29_Step ==
    \A p \in Callers :
        LET c == calls[p]
            d == calls'[p]
            stale == getEffectiveAuthMode(config) = "password"
                     /\ (~Truthy(authToken) \/ now >= tokenExpires)
        IN  /\ (c.pc = "sleep" /\ d.pc # "sleep") =>
                  /\ d.retryCount = c.retryCount + 1
                  /\ d.attempts = c.attempts
                  /\ IF stale
                     THEN d.pc = "loginWait" /\ d.logins = c.logins + 1 /\ d.token = NoValue
                     ELSE d.pc = "token" /\ d.logins = c.logins /\ d.token = Credential
            /\ (c.pc = "loginWait" /\ d.pc = "token") =>
                  d.token = authToken' /\ Truthy(d.token)
            /\ (c.pc = "token" /\ d.pc = "apiWait") =>
                  /\ d.attempts = c.attempts + 1
                  /\ d.sent.tokenHeader = (IF useCrypt THEN NoValue ELSE c.token)

\* C29: a retry obtains the credential again before its exchange: a call
\* that wakes from its backoff while the session token is missing or expired
\* performs a login, and the exchange that follows carries the token that
\* login returned; a call that wakes while the token is valid takes the
\* cached one; no exchange is issued between the wake and the credential
C29_RetryObtainsCredentialAgain == [][C29_Step]_vars

\* a retry in flight with the token of a second login of the same call
C29_Witness ==
    \E p \in Callers :
        /\ getEffectiveAuthMode(config) = "password"
        /\ calls[p].pc = "apiWait" /\ calls[p].retryCount = 1
        /\ calls[p].attempts = 2 /\ calls[p].logins = 2
        /\ calls[p].sent.tokenHeader = calls[p].token /\ calls[p].token \in SessionTokens


\* ---- C30 ----

InRequest(c) == c.pc \in {"token", "loginWait", "apiWait", "sleep"}

\* the retries request() can make: none when maxRetries is negative
RetryBudget == IF config.maxRetries < 0 THEN 0 ELSE config.maxRetries

\* the reply of a successful attempt: a parsed body whose success is true
SuccessReply(reply) ==
    /\ httpRequest(reply).ok
    /\ ~httpRequest(reply).response.isNull
    /\ httpRequest(reply).response.success = <<TRUE>>

C30_Bounded ==
    \A p \in Callers :
        /\ calls[p].retryCount <= RetryBudget
        /\ calls[p].attempts <= calls[p].retryCount + 1
        /\ calls[p].pc = "done" => calls[p].req.kind \in {"value", "error"}

C30_Step ==
    \A p \in Callers :
        LET c == calls[p]
            d == calls'[p]
        IN  /\ (c.pc = "sleep" /\ d.pc # "sleep") => d.retryCount = c.retryCount + 1
            /\ (InRequest(c) /\ InRequest(d)) => d.retryCount >= c.retryCount
            /\ (c.pc = "apiWait" /\ d.pc # "apiWait" /\ SuccessReply(d.reply)) =>
                  /\ d.pc = "done"
                  /\ d.req = Returned(httpRequest(d.reply).response.data)
                  /\ d.attempts = c.attempts /\ d.waits = c.waits
            /\ c.pc = "done" => d.pc \in {"done", "idle"}

\* C30 as stated: no call issues more than maxRetries+1 API exchanges
C30_AtMostMaxRetriesPlusOne ==
    \A p \in Callers : calls[p].attempts <= config.maxRetries + 1

\* C30: when every exchange completes, every call to request() ends with a
\* value or an error, after at most max(maxRetries, 0) + 1 API exchanges;
\* retryCount grows by one on each retry and never shrinks during a call; a
\* successful attempt ends the call with the data of that attempt, without a
\* further exchange or wait
C30_Terminates ==
    /\ \A p \in Callers : InRequest(calls[p]) ~> (calls[p].pc = "done")
    /\ []C30_Bounded
    /\ [][C30_Step]_vars

\* a call that failed retryably, waited, and ended with the data of its
\* second attempt, the last its budget allows
C30_Witness ==
    \E p \in Callers :
        /\ config.maxRetries = 1
        /\ calls[p].pc = "done" /\ calls[p].req.kind = "value"
        /\ calls[p].retryCount = 1 /\ calls[p].attempts = 2 /\ Len(calls[p].waits) = 1


\* ---- C31 ----

\* C31: a configuration that passed validateAuthConfig holds the credential
\* its effective mode needs: in token mode a non-empty static token, which is
\* what getAuthToken returns, and in password mode a non-empty username and
\* a non-empty password
C31_AcceptedHasCredential ==
    boot = "ready" =>
        /\ getEffectiveAuthMode(config) = "token" =>
              /\ config.token \notin {NoValue, Null, ""}
              /\ Credential = config.token
        /\ getEffectiveAuthMode(config) = "password" =>
              /\ config.username \notin {NoValue, Null, ""}
              /\ config.password \notin {NoValue, Null, ""}

\* an accepted configuration whose mode is inferred: auto, no token, and so
\* the password mode
C31_Witness ==
    /\ boot = "ready"
    /\ config.authMode = "auto" /\ config.token \in {NoValue, ""}
    /\ getEffectiveAuthMode(config) = "password"
    /\ config.username = "admin" /\ config.password = "pw"


\* ---- C32 ----

\* the retryable flag of a PhpIpamError agrees with its kind
FlagMatchesKind(e) == e.retryable <=> e.code = "RETRYABLE"

\* the PhpIpamErrors a call holds: the error of its last attempt, the
\* outcomes of request(), of the client method and of handleTool
ErrorsOf(c) ==
    {o.error : o \in {o \in {c.req, c.result, c.out} : o.kind = "error" /\ o.error.php}}
    \cup (IF c.reply = NoReply THEN {}
          ELSE LET o == AttemptOutcome(httpRequest(c.reply))
               IN  IF o.kind = "error" /\ o.error.php THEN {o.error} ELSE {})

\* C32: every PhpIpamError of the loader, the client and the dispatcher has
\* retryable true exactly when its kind is RETRYABLE, and the answer of the
\* CallTool handler reports the flag of the error it answers for
C32_RetryableIffKind ==
    /\ boot = "configError" => FlagMatchesKind(validateAuthConfig(config))
    /\ \A p \in Callers :
          /\ \A e \in ErrorsOf(calls[p]) : FlagMatchesKind(e)
          /\ (calls[p].response.isError /\ calls[p].response.retryable # <<>>) =>
                calls[p].response.retryable = <<calls[p].response.error = "RETRYABLE">>

\* a tool has answered for a call that ended on a server error after its
\* retries: kind RETRYABLE, flag true
C32_Witness ==
    \E p \in Callers :
        /\ calls[p].pc = "done" /\ calls[p].tool # NoValue
        /\ calls[p].out.kind = "error" /\ calls[p].out.error.php
        /\ calls[p].out.error.code = "RETRYABLE" /\ calls[p].out.error.retryable
        /\ calls[p].out.error.statusCode = <<503>>
        /\ calls[p].response = ToolResponse(TRUE, "RETRYABLE", <<TRUE>>)


\* ---- C33 ----

C33_Step ==
    \A p \in Callers :
        (/\ getEffectiveAuthMode(config) = "password"
         /\ Rejected401(p)
         /\ authToken # calls[p].sent.tokenHeader) => authToken' = authToken

\* C33: in password mode a 401 answer to an API exchange that carried the
\* session token X leaves the cached token as it is when the cached token
\* is no longer X (a later login has stored another)
C33_Late401KeepsNewerToken == [][C33_Step]_vars


\* ---- C34 ----

\* the keys whose entry differs before and after the step
ChangedKeys ==
    {key \in DOMAIN cache \cup DOMAIN cache' :
        \/ key \notin DOMAIN cache
        \/ key \notin DOMAIN cache'
        \/ key \in DOMAIN cache \cap DOMAIN cache' /\ cache'[key] # cache[key]}

\* the request() a call is in when it takes the step: the one it enters,
\* when it starts, else the one it was in
StepOp(c, d) == IF c.pc = "idle" THEN [op |-> d.op, arg |-> d.arg] ELSE [op |-> c.op, arg |-> c.arg]

C34_Step ==
    /\ ~config.enableCache =>
          /\ cache = <<>> /\ cache' = <<>>
          /\ \A p \in Callers :
                /\ (calls[p].pc = "idle" /\ calls'[p].pc # "idle") =>
                      calls'[p].pc \in {"token", "loginWait"}
                /\ (calls[p].pc = "token" /\ calls'[p].pc # "token") =>
                      calls'[p].pc = "apiWait" /\ calls'[p].attempts = calls[p].attempts + 1
    /\ \A p \in Callers :
          (calls'[p] # calls[p] /\ ChangedKeys # {}) =>
              LET at == StepOp(calls[p], calls'[p])
              IN  /\ config.enableCache
                  /\ at.op \in {"listSections", "listSubnets"}
                  /\ ChangedKeys = {IF at.op = "listSections" THEN "sections"
                                    ELSE "subnets:" \o at.arg}
    /\ (\A p \in Callers : calls'[p] = calls[p]) => ChangedKeys = {}

\* C34: with enableCache false the cache stays empty and every call goes
\* to the network: it enters request(), and once it holds the credential it
\* issues its API exchange. With enableCache true an entry is added, replaced
\* or dropped only by a step of listSections, under the key sections, or of
\* listSubnets, under the key subnets: followed by its section id, and by no
\* step of any other operation
C34_CacheFrame == [][C34_Step]_vars

\* the lists of the sections and of the subnets of two sections are cached
\* under three keys while a createSection is under way
C34_Witness ==
    /\ config.enableCache
    /\ DOMAIN cache = {"sections", "subnets:1", "subnets:2"}
    /\ \E p \in Callers : calls[p].op = "createSection" /\ calls[p].pc = "apiWait"

=============================================================================
